---- MODULE Spec2Model ----
(***************************************************************************)
(* Backward-chaining prover of task_7/backward_chain.py as a state         *)
(* machine.  The recursion of backchain_to_goal / _prove_premises is made  *)
(* explicit as a control stack of frames; the fields of BackwardChainer    *)
(* (proved_goals, current_goals, rule_counter, trace_depth, max_depth) are *)
(* state variables.                                                        *)
(*                                                                         *)
(* Terms.  The source keeps every term as a Python string; a variable is a *)
(* string that starts with '?'.  Renaming appends "_<n>" to the string.    *)
(* A term is modelled as a non-empty tuple: its first element is the base  *)
(* string, the remaining elements are the numeric suffixes appended to it, *)
(* so "?X" is <<"?X">> and "?X_3" is <<"?X", 3>>.                          *)
(***************************************************************************)
EXTENDS Integers, Sequences, FiniteSets, TLC

\* First pieces that start with '?' (the str.startswith('?') test); "?" is
\* the first piece of a string the parser built, given character by character.
QuestionNames == {"?X", "?Y", "?Z", "?B", "?W", "?"}

T(name) == <<name>>

IsVar(t) == t # <<>> /\ t[1] \in QuestionNames

\* Fact.__init__ : predicate and the tuple of argument strings.
Fact(predicate, args) == [predicate |-> predicate, args |-> args]

F0(p) == Fact(p, <<>>)
F1(p, x) == Fact(p, <<T(x)>>)
F2(p, x, y) == Fact(p, <<T(x), T(y)>>)

\* Rule dataclass.
Rule(conclusion, premises) == [conclusion |-> conclusion, premises |-> premises]

\* A dict of bindings is a function from terms to terms; {} is the function
\* with the empty domain.
EmptyBindings == [x \in {} |-> x]

\* bindings[k] = v on a dict.
SetItem(b, k, v) == [x \in (DOMAIN b) \cup {k} |-> IF x = k THEN v ELSE b[x]]

RECURSIVE SubstituteWalk(_, _, _, _)
SubstituteWalk(arg, value, seen, bindings) ==
    IF value \notin DOMAIN bindings THEN value
    ELSE IF value \in seen /\ value # arg THEN value
    ELSE LET next_value == bindings[value] IN
         IF next_value = value THEN value
         ELSE SubstituteWalk(arg, next_value, seen \cup {value}, bindings)

\* Fact.substitute
substitute(fact, bindings) ==
    Fact(fact.predicate,
         [i \in 1..Len(fact.args) |->
             SubstituteWalk(fact.args[i], fact.args[i], {fact.args[i]}, bindings)])

\* A lookup that does not follow the chain of bindings.
Unresolved(var, bindings) == var

\* A lookup that follows one binding only.
ResolveOnce(var, bindings) == IF var \in DOMAIN bindings THEN bindings[var] ELSE var

RECURSIVE ResolveWalk(_, _, _)
ResolveWalk(value, seen, bindings) ==
    IF value \notin DOMAIN bindings THEN value
    ELSE LET next_value == bindings[value] IN
         IF next_value = value \/ next_value \in seen THEN value
         ELSE ResolveWalk(next_value, seen \cup {next_value}, bindings)

\* Fact._resolve_binding
resolve_binding(var, bindings) == ResolveWalk(var, {var}, bindings)

\* One iteration of the zip loop of Fact.match on the dict the loop writes to:
\* whether the loop goes on (FALSE is the early "return None") and the dict
\* after the pair.
MatchPair(self_arg, other_arg, bindings) ==
    LET resolved_self == IF IsVar(self_arg) THEN resolve_binding(self_arg, bindings)
                         ELSE self_arg
        resolved_other == IF IsVar(other_arg) THEN resolve_binding(other_arg, bindings)
                          ELSE other_arg
    IN  IF IsVar(resolved_self) /\ IsVar(resolved_other)
        THEN IF resolved_self # resolved_other
             THEN [ok |-> TRUE, bindings |-> SetItem(bindings, resolved_self, resolved_other)]
             ELSE [ok |-> TRUE, bindings |-> bindings]
        ELSE IF IsVar(resolved_self)
        THEN [ok |-> TRUE, bindings |-> SetItem(bindings, resolved_self, resolved_other)]
        ELSE IF IsVar(resolved_other)
        THEN [ok |-> TRUE, bindings |-> SetItem(bindings, resolved_other, resolved_self)]
        ELSE [ok |-> resolved_self = resolved_other, bindings |-> bindings]

\* The zip loop of Fact.match from its i-th pair on; zip ends with the shorter
\* of the two argument tuples.
RECURSIVE MatchArgs(_, _, _, _)
MatchArgs(self_args, other_args, i, bindings) ==
    IF i > Len(self_args) \/ i > Len(other_args) THEN [ok |-> TRUE, bindings |-> bindings]
    ELSE LET r == MatchPair(self_args[i], other_args[i], bindings) IN
         IF ~r.ok THEN r
         ELSE MatchArgs(self_args, other_args, i + 1, r.bindings)

\* The arity test refusing only a longer self.
ArityExceeds(self, other) == Len(self.args) > Len(other.args)

\* "if len(self.args) != len(other.args)"
ArityDiffers(self, other) == Len(self.args) # Len(other.args)

\* The body of Fact.match after line 74, on the dict it writes to: whether it
\* returns that dict, and the dict when it returns.
MatchBody(self, other, bindings) ==
    IF self.predicate # other.predicate THEN [ok |-> FALSE, bindings |-> bindings]
    ELSE IF ArityDiffers(self, other) THEN [ok |-> FALSE, bindings |-> bindings]
    ELSE MatchArgs(self.args, other.args, 1, bindings)

\* Fact.match writing to the caller's dict itself.
SameDict(bindings) == [items |-> bindings, is_argument |-> TRUE]

\* "bindings = bindings.copy()": the dict Fact.match writes to has the items of
\* the argument and is another object.
CopiedDict(bindings) == [items |-> bindings, is_argument |-> FALSE]

\* Fact.match : <<>> for None, <<bindings'>> for the returned dict.
match(self, other, bindings) ==
    LET body == MatchBody(self, other, CopiedDict(bindings).items)
    IN  IF body.ok THEN <<body.bindings>> ELSE <<>>

\* The caller's dict after Fact.match has returned: what the body wrote when
\* it wrote to the argument, else the argument as it was.
AfterMatch(self, other, bindings) ==
    CHOOSE after \in
        {IF dict.is_argument THEN MatchBody(self, other, dict.items).bindings
                             ELSE dict.items : dict \in {CopiedDict(bindings)}} : TRUE

\* KnowledgeBase.__init__, add_fact, add_rule: facts is a set, rules a list.
NewKnowledgeBase == [facts |-> {}, rules |-> <<>>]

add_fact(k, fact) == [k EXCEPT !.facts = @ \cup {fact}]

add_rule(k, rule) == [k EXCEPT !.rules = Append(@, rule)]

RECURSIVE AddFacts(_, _)
AddFacts(k, listing) ==
    IF listing = <<>> THEN k
    ELSE AddFacts(add_fact(k, Head(listing)), Tail(listing))

RECURSIVE AddRules(_, _)
AddRules(k, listing) ==
    IF listing = <<>> THEN k
    ELSE AddRules(add_rule(k, Head(listing)), Tail(listing))

\* A knowledge base built by add_fact / add_rule calls in listing order.
BuildKB(fact_listing, rule_listing) ==
    AddRules(AddFacts(NewKnowledgeBase, fact_listing), rule_listing)

\* str + suffix on a variable string; constants are left alone
\* (renaming.get(arg, arg)).
RenameArg(arg, counter) == IF IsVar(arg) THEN Append(arg, counter) ELSE arg

RenameFact(fact, counter) ==
    Fact(fact.predicate,
         [i \in 1..Len(fact.args) |-> RenameArg(fact.args[i], counter)])

\* BackwardChainer._rename_rule_variables, given the counter after its
\* increment.
rename_rule_variables(rule, counter) ==
    Rule(RenameFact(rule.conclusion, counter),
         [i \in 1..Len(rule.premises) |-> RenameFact(rule.premises[i], counter)])

\* The variables of an atom / groundness.
VarsOf(fact) == {fact.args[i] : i \in {j \in 1..Len(fact.args) : IsVar(fact.args[j])}}

IsGround(fact) == VarsOf(fact) = {}

SeqToSet(s) == {s[i] : i \in 1..Len(s)}

\* The chain walk of extract_query_bindings (the while loop of lines 451-455).
RECURSIVE ChainWalk(_, _, _)
ChainWalk(value, seen, bindings) ==
    IF value \in DOMAIN bindings /\ IsVar(value)
    THEN IF value \in seen THEN value
         ELSE ChainWalk(bindings[value], seen \cup {value}, bindings)
    ELSE value

\* clean_bindings over every bound variable instead of the query variables.
CleanBindingsAllKeys(query_vars, bindings) ==
    LET final(var) == ChainWalk(bindings[var], {var}, bindings)
        kept == {var \in DOMAIN bindings : ~IsVar(final(var))}
    IN  [var \in kept |-> final(var)]

\* clean_bindings of one bindings dict: the query variables whose chain ends
\* in a string that is no variable.
CleanBindings(query_vars, bindings) ==
    LET final(var) == ChainWalk(bindings[var], {var}, bindings)
        kept == {var \in query_vars : var \in DOMAIN bindings /\ ~IsVar(final(var))}
    IN  [var \in kept |-> final(var)]

\* The first loop of extract_query_bindings (lines 444-462): the clean_bindings
\* of each bindings dict in turn; "if clean_bindings:" drops the empty ones.
CleanAll(query_vars, bindings_list) ==
    LET NonEmpty(clean_bindings) == DOMAIN clean_bindings # {}
    IN  SelectSeq([k \in 1..Len(bindings_list) |->
                      CleanBindings(query_vars, bindings_list[k])], NonEmpty)

\* The duplicate removal of extract_query_bindings (lines 465-471): a dict is
\* appended to unique_results when no earlier dict of result has its items,
\* so the first occurrences are left, in order.
RemoveDuplicates(result) ==
    LET NotSeen(k) == \A j \in 1..(k - 1) : result[j] # result[k]
        unique == SelectSeq([k \in 1..Len(result) |-> k], NotSeen)
    IN  [n \in 1..Len(unique) |-> result[unique[n]]]

extract_query_bindings(fact, bindings_list) ==
    CHOOSE unique_results \in
        {RemoveDuplicates(result) : result \in {CleanAll(VarsOf(fact), bindings_list)}} : TRUE

(***************************************************************************)
(* Scenarios: a knowledge base as its add_fact / add_rule listing, and the *)
(* goals a caller asks of it.                                              *)
(***************************************************************************)
Scenario(fact_listing, rule_listing, goals) ==
    [fact_listing |-> fact_listing, rule_listing |-> rule_listing, goals |-> goals]

\* create_family_knowledge_base
FamilyFacts ==
    << F2("father", "john", "mary"), F2("father", "john", "tom"),
       F2("mother", "susan", "mary"), F2("mother", "susan", "tom"),
       F2("father", "tom", "alice"), F2("mother", "jane", "alice") >>

FamilyRules ==
    << Rule(F2("parent", "?X", "?Y"), <<F2("father", "?X", "?Y")>>),
       Rule(F2("parent", "?X", "?Y"), <<F2("mother", "?X", "?Y")>>),
       Rule(F2("grandparent", "?X", "?Z"),
            <<F2("parent", "?X", "?Y"), F2("parent", "?Y", "?Z")>>) >>

\* The queries of demo(), lines 514-553.
FamilyGoals ==
    { F2("parent", "john", "mary"), F2("grandparent", "john", "alice"),
      F2("parent", "susan", "tom"), F2("parent", "?X", "alice"),
      F2("parent", "john", "?Y"), F2("grandparent", "?X", "alice") }

\* create_animal_knowledge_base
AnimalFacts ==
    << F1("has_fur", "dog"), F1("warm_blooded", "dog"), F2("eats", "dog", "meat"),
       F1("has_feathers", "sparrow"), F1("warm_blooded", "sparrow"),
       F1("has_feathers", "penguin"), F1("warm_blooded", "penguin"),
       F1("flightless", "penguin"),
       F1("has_fur", "cat"), F1("warm_blooded", "cat"), F2("eats", "cat", "meat") >>

AnimalRules ==
    << Rule(F1("mammal", "?X"), <<F1("has_fur", "?X"), F1("warm_blooded", "?X")>>),
       Rule(F1("bird", "?X"), <<F1("has_feathers", "?X"), F1("warm_blooded", "?X")>>),
       Rule(F1("carnivore", "?X"), <<F2("eats", "?X", "meat")>>) >>

\* The queries of demo(), lines 490-504, and the variable query on carnivore.
AnimalGoals ==
    { F1("mammal", "dog"), F1("bird", "sparrow"), F1("carnivore", "cat"),
      F1("bird", "penguin"), F1("carnivore", "?X"), F1("mammal", "sparrow") }

\* The org chart of the task_8 demo: in_charge_of(?X,?Y) :- reports_to(?Y,?X).
OrgFacts ==
    << F2("reports_to", "mordecai", "benson"), F2("reports_to", "rigby", "benson"),
       F2("reports_to", "benson", "pops") >>

OrgRules ==
    << Rule(F2("in_charge_of", "?X", "?Y"), <<F2("reports_to", "?Y", "?X")>>) >>

OrgGoals ==
    { F2("in_charge_of", "benson", "mordecai"), F2("in_charge_of", "benson", "?X"),
      F2("in_charge_of", "?X", "?Y"), F2("in_charge_of", "rigby", "?W") }

\* Facts added one at a time to an otherwise empty knowledge base: ground,
\* with variables, with a repeated variable, without arguments.
FactPool ==
    { F1("p", "a"), F1("p", "?X"), F2("q", "a", "b"), F2("q", "?X", "?Y"),
      F2("q", "?X", "?X"), F2("q", "?X", "b"), F0("r") }

SingleFactGoals == FactPool \cup {F1("p", "?Y"), F2("q", "a", "?X"), F2("q", "b", "?Y")}

SingleFactScenarios == {Scenario(<<f>>, <<>>, SingleFactGoals) : f \in FactPool}

\* Mutually recursive ground rules, with and without a way out.
CycleRules ==
    << Rule(F1("p", "a"), <<F1("q", "a")>>),
       Rule(F1("q", "a"), <<F1("p", "a")>>),
       Rule(F1("q", "b"), <<F1("q", "b")>>),
       Rule(F1("q", "a"), <<F1("s", "a")>>) >>

CycleGoals == {F1("p", "a"), F1("q", "a"), F1("q", "b"), F1("p", "?X"), F1("q", "?Y")}

\* A directly recursive rule over a variable.
SelfRules == << Rule(F1("p", "?X"), <<F1("p", "?X")>>) >>

SelfGoals == {F1("p", "a"), F1("p", "b"), F1("p", "?X"), F1("p", "?Y")}

\* Transitive closure over an acyclic edge relation.
PathFacts == << F2("edge", "a", "b"), F2("edge", "b", "c") >>

PathRules ==
    << Rule(F2("path", "?X", "?Y"), <<F2("edge", "?X", "?Y")>>),
       Rule(F2("path", "?X", "?Y"), <<F2("edge", "?X", "?Z"), F2("path", "?Z", "?Y")>>) >>

PathGoals ==
    { F2("path", "a", "c"), F2("path", "a", "?Y"), F2("path", "?X", "c"),
      F2("path", "?X", "?Y"), F2("path", "c", "a"), F2("path", "?X", "?X") }

\* The same premise once and twice in a body, over a variable and ground.
MemoFacts == << F1("g", "a"), F1("g", "b") >>

MemoRules ==
    << Rule(F1("once", "?X"), <<F1("g", "?X")>>),
       Rule(F1("twice", "?X"), <<F1("g", "?X"), F1("g", "?X")>>),
       Rule(F1("h", "a"), <<F1("g", "a")>>),
       Rule(F1("once", "?X"), <<F1("h", "?X")>>),
       Rule(F1("twice", "?X"), <<F1("h", "?X"), F1("h", "?X")>>) >>

MemoGoals ==
    { F1("once", "?X"), F1("twice", "?X"), F1("once", "a"), F1("twice", "a"),
      F1("once", "c"), F1("twice", "c") }

\* A rule without premises and a rule whose head variable is not in its body.
LooseFacts == << F0("r"), F1("p", "a") >>

LooseRules ==
    << Rule(F1("s", "a"), <<>>),
       Rule(F1("p", "?X"), <<F0("r")>>),
       Rule(F1("t", "?X"), <<F1("p", "?X"), F1("p", "?X"), F1("s", "?X")>>) >>

LooseGoals == {F1("s", "a"), F1("s", "?X"), F1("p", "?Y"), F1("p", "b"), F1("t", "?Z"), F0("r")}

\* A goal whose variables are spelled like renamed rule variables
\* ("?Y_1", "?X_1": an upper-case name ending in _1 in the surface syntax).
ClashFacts == << F1("g", "a"), F1("k", "b") >>

ClashRules == << Rule(F2("pair", "?X", "?Y"), <<F1("g", "?X"), F1("k", "?Y")>>) >>

ClashGoals ==
    { Fact("pair", << <<"?Y", 1>>, <<"?X", 1>> >>), F2("pair", "?Y", "?X"),
      F2("pair", "a", "b"), Fact("pair", << <<"?X", 1>>, <<"?Y", 1>> >>) }

\* A fact of three arguments with one variable twice, and goals over three
\* variables.
TiedFacts == << Fact("t", <<T("a"), T("?Z"), T("?Z")>>) >>

TiedGoals ==
    { Fact("t", <<T("?X"), T("?Y"), T("?W")>>), Fact("t", <<T("a"), T("b"), T("b")>>),
      Fact("t", <<T("a"), T("b"), T("c")>>), Fact("t", <<T("?X"), T("b"), T("?W")>>) }

Scenarios ==
    { Scenario(FamilyFacts, FamilyRules, FamilyGoals),
      Scenario(AnimalFacts, AnimalRules, AnimalGoals),
      Scenario(OrgFacts, OrgRules, OrgGoals),
      Scenario(<<F1("s", "a")>>, CycleRules, CycleGoals),
      Scenario(<<>>, CycleRules, CycleGoals),
      Scenario(<<F1("p", "a")>>, SelfRules, SelfGoals),
      Scenario(PathFacts, PathRules, PathGoals),
      Scenario(MemoFacts, MemoRules, MemoGoals),
      Scenario(LooseFacts, LooseRules, LooseGoals),
      Scenario(ClashFacts, ClashRules, ClashGoals),
      Scenario(TiedFacts, <<>>, TiedGoals) }
    \cup SingleFactScenarios

\* The scenarios on which several top-level calls are made on one prover.
SessionScenarios ==
    { Scenario(<<F1("p", "a")>>, <<>>, {F1("p", "a"), F1("p", "?X")}),
      Scenario(MemoFacts, MemoRules,
               {F1("once", "?X"), F1("twice", "?X"), F1("once", "a"), F1("twice", "a")}),
      Scenario(<<>>, CycleRules, {F1("p", "a")}),
      Scenario(LooseFacts, LooseRules, {F1("s", "?X")}),
      Scenario(ClashFacts, ClashRules,
               {Fact("pair", << <<"?Y", 1>>, <<"?X", 1>> >>), F2("pair", "?Y", "?X")}) }

\* The orders in which "for fact in self.kb.facts" can visit a set: the
\* order of a Python set of hashed strings is not the insertion order and
\* differs from process to process, but is the same for every loop over an
\* unchanged set.  Every order for small sets; the listing order and its
\* reverse for larger ones.
MaxPermuted == 3

AllOrders(S) ==
    {s \in [1..Cardinality(S) -> S] : \A i, j \in 1..Cardinality(S) : s[i] = s[j] => i = j}

RECURSIVE Distinct(_, _)
Distinct(listing, seen) ==
    IF listing = <<>> THEN <<>>
    ELSE IF Head(listing) \in seen THEN Distinct(Tail(listing), seen)
         ELSE <<Head(listing)>> \o Distinct(Tail(listing), seen \cup {Head(listing)})

Reverse(s) == [i \in 1..Len(s) |-> s[Len(s) + 1 - i]]

FactOrders(fact_listing) ==
    LET d == Distinct(fact_listing, {}) IN
    IF Len(d) <= MaxPermuted THEN AllOrders(SeqToSet(d)) ELSE {d, Reverse(d)}

\* max_depth of BackwardChainer.__init__ : the default when the caller
\* passes none (<<>>), else the caller's value.
DefaultMaxDepth == 50

MaxDepthArg == 2

DepthArgs == {<<>>} \cup {<<d>> : d \in 0..MaxDepthArg}

MaxDepthOf(arg) == IF arg = <<>> THEN DefaultMaxDepth ELSE arg[1]

\* Top-level calls made on one prover instance.
MaxCalls == 2

\* Cap on the goal expansions of one top-level call that the model follows.
MaxExpansions == 64

(***************************************************************************)
(* State.                                                                  *)
(***************************************************************************)
VARIABLES
    kb,             \* BackwardChainer.kb : [facts, rules]
    fact_order,     \* the iteration order of the set kb.facts
    goals,          \* the goals the caller may ask
    budget,         \* how many top-level calls the caller makes
    max_depth,      \* BackwardChainer.max_depth
    depth_arg,      \* the max_depth argument of the constructor (<<>>: omitted)
    trace_depth,    \* BackwardChainer.trace_depth
    proved_goals,   \* BackwardChainer.proved_goals
    rule_counter,   \* BackwardChainer.rule_counter
    current_goals,  \* BackwardChainer.current_goals
    stack,          \* activation records of backchain_to_goal / _prove_premises
    ret,            \* the value returned by the activation that ended last
    api,            \* the top-level call in progress: "prove", "solve" or "none"
    goal,           \* its hypothesis
    calls,          \* top-level calls started so far
    history,        \* the completed top-level calls and what they returned
    expansions,     \* backchain_to_goal activations of the call in progress
    memo_hits,      \* "Already proved" returns of the call in progress
    event,          \* how the last backchain_to_goal activation began:
                    \* "depth", "cycle", "proved" or "expanded"
    variant,        \* the knowledge bases on which a prover is constructed later
    prover,         \* how many BackwardChainer objects were constructed so far
    job,            \* a call of a function of the parser or of Fact: its input
    job_result      \* <<>> before that call, <<value>> after it

chainer == <<trace_depth, proved_goals, rule_counter, current_goals>>
\* What no step of a proof writes.
setup == <<kb, fact_order, goals, budget, max_depth, depth_arg, variant, prover,
           job, job_result>>
vars == <<kb, fact_order, goals, budget, max_depth, depth_arg, trace_depth,
          proved_goals, rule_counter, current_goals, stack, ret, api, goal,
          calls, history, expansions, memo_hits, event, variant, prover, job,
          job_result>>

NoFact == Fact("", <<>>)

\* Activation record of backchain_to_goal(hypothesis, bindings).
BcFrame(hypothesis, bindings) ==
    [fn |-> "backchain_to_goal", pc |-> "enter", hypothesis |-> hypothesis,
     premises |-> <<>>, bindings |-> bindings, results |-> <<>>,
     first_results |-> <<>>, i |-> 1, match_bindings |-> EmptyBindings]

\* Activation record of _prove_premises(premises, bindings).
PpFrame(premises, bindings) ==
    [fn |-> "_prove_premises", pc |-> "enter", hypothesis |-> NoFact,
     premises |-> premises, bindings |-> bindings, results |-> <<>>,
     first_results |-> <<>>, i |-> 1, match_bindings |-> EmptyBindings]

Top == stack[Len(stack)]
\* The stack with the activation that ended left on it.
NotPopped == stack
\* The stack without the activation that ends.
Popped == SubSeq(stack, 1, Len(stack) - 1)
WithTop(frame) == [stack EXCEPT ![Len(stack)] = frame]
Running(fn, pc) == stack # <<>> /\ Top.fn = fn /\ Top.pc = pc

\* BackwardChainer.__init__ on the knowledge base built from a scenario's
\* listing, whose fact set iterates in the given order.
Constructed(sc, order, arg, max_calls) ==
    /\ kb = BuildKB(sc.fact_listing, sc.rule_listing)
    /\ fact_order = order
    /\ goals = sc.goals
    /\ budget = max_calls
    /\ depth_arg = arg
    /\ max_depth = MaxDepthOf(arg)
    /\ trace_depth = 0
    /\ proved_goals = {}
    /\ rule_counter = 0
    /\ current_goals = <<>>
    /\ stack = <<>>
    /\ ret = <<>>
    /\ api = "none"
    /\ goal = NoFact
    /\ calls = 0
    /\ history = <<>>
    /\ expansions = 0
    /\ memo_hits = 0
    /\ event = "none"

\* No call of a parser or Fact function is followed.
NoJob == [fn |-> "none"]

\* One prover only, and no function call on its own.
OneProver == variant = <<>> /\ prover = 1 /\ job = NoJob /\ job_result = <<>>

InitWith(scenarios, max_calls) ==
    \E sc \in scenarios :
    \E order \in FactOrders(sc.fact_listing) :
    \E arg \in DepthArgs :
        Constructed(sc, order, arg, max_calls) /\ OneProver

\* One top-level call on a fresh prover, over every scenario.
Init == InitWith(Scenarios, 1)

\* Up to MaxCalls top-level calls on one prover.
SessionInit == InitWith(SessionScenarios, MaxCalls)

(***************************************************************************)
(* The conditions and results of backchain_to_goal.                        *)
(***************************************************************************)
\* The depth check off by one.
DepthExceededLate(depth, limit) == depth > limit + 1

\* "if self.trace_depth > self.max_depth", after the increment at entry.
DepthExceeded(depth, limit) == depth > limit

\* The cycle check left out.
CycleNeverDetected(bound_hypothesis, open_goals) == FALSE

\* "if bound_hypothesis in self.current_goals"
CycleDetected(bound_hypothesis, open_goals) == bound_hypothesis \in SeqToSet(open_goals)

\* "if bound_hypothesis in self.proved_goals"
AlreadyProved(bound_hypothesis, proved) == bound_hypothesis \in proved

\* The memo hit answering with a fresh environment instead of the current one.
AlreadyProvedFresh(bindings) == <<EmptyBindings>>

\* "return [bindings]" of the memo hit.
AlreadyProvedResult(bindings) == <<bindings>>

\* Step 1 of backchain_to_goal, the loop over kb.facts in iteration order:
\* the match_bindings appended to results.
FactResults(hypothesis, bindings, order) ==
    LET argument[n \in 0..Len(order)] ==
            IF n = 0 THEN bindings
            ELSE AfterMatch(hypothesis, order[n], argument[n - 1])
        results[n \in 0..Len(order)] ==
            IF n = 0 THEN <<>>
            ELSE results[n - 1] \o match(hypothesis, order[n], argument[n - 1])
    IN  results[Len(order)]

\* The dict passed to backchain_to_goal as it is after the loop over the facts.
AfterFacts(hypothesis, bindings, order) ==
    LET argument[n \in 0..Len(order)] ==
            IF n = 0 THEN bindings
            ELSE AfterMatch(hypothesis, order[n], argument[n - 1])
    IN  argument[Len(order)]

\* The matched_hypothesis added to proved_goals on a success with match_bindings.
MatchedHypothesis(hypothesis, match_bindings) == substitute(hypothesis, match_bindings)

\* Step 1, the atoms it adds to proved_goals.
FactProved(hypothesis, bindings, order) ==
    {MatchedHypothesis(hypothesis, mb) : mb \in SeqToSet(FactResults(hypothesis, bindings, order))}

\* The goal stack without its oldest goal.
PoppedOldest(open_goals) == Tail(open_goals)

\* "self.current_goals.pop()": the goal stack without its newest goal.
PoppedNewest(open_goals) == SubSeq(open_goals, 1, Len(open_goals) - 1)

\* The rules taken from the end of the list.
RuleFromEnd(rules, i) == rules[Len(rules) + 1 - i]

\* "for rule in self.kb.rules": the rule of the i-th iteration.
RuleAt(rules, i) == rules[i]

\* The results put first instead of last.
ExtendedInFront(results, more_results) == more_results \o results

\* "results.extend(premise_results)" / "all_results.extend(remaining_results)"
Extended(results, more_results) == results \o more_results

\* The return value of prove.
ProveValue(results) == Len(results) > 0

\* What proved_goals is after the proved_goals.clear() of prove /
\* prove_with_bindings.
ClearedProvedGoals(proved) == {}

\* rule_counter as the top-level entry points leave it: neither prove nor
\* prove_with_bindings assigns it.
CounterAtEntry(counter) == counter

(***************************************************************************)
(* Top-level calls.                                                        *)
(***************************************************************************)
StartCall(name, hypothesis) ==
    /\ stack = <<>>
    /\ api = "none"
    /\ calls < budget
    /\ proved_goals' = ClearedProvedGoals(proved_goals)
    /\ rule_counter' = CounterAtEntry(rule_counter)
    /\ stack' = <<BcFrame(hypothesis, EmptyBindings)>>
    /\ api' = name
    /\ goal' = hypothesis
    /\ calls' = calls + 1
    /\ expansions' = 0
    /\ memo_hits' = 0
    /\ event' = "none"
    /\ ret' = <<>>
    /\ UNCHANGED <<setup, trace_depth, current_goals, history>>

\* BackwardChainer.prove(hypothesis), up to its call of backchain_to_goal.
Prove == \E hypothesis \in goals : StartCall("prove", hypothesis)

\* solve: prove_with_bindings(query) followed by extract_query_bindings(query,
\* bindings), as in demo() lines 532-534; up to the call of backchain_to_goal.
Solve == \E hypothesis \in goals : StartCall("solve", hypothesis)

Completed(name, proved, solutions) ==
    [api |-> name, goal |-> goal, proved |-> proved, solutions |-> solutions,
     results |-> ret, counter |-> rule_counter, depth |-> trace_depth,
     open_goals |-> current_goals, prover |-> prover]

EndCall(entry) ==
    /\ history' = Append(history, entry)
    /\ api' = "none"
    /\ ret' = <<>>
    /\ UNCHANGED <<setup, chainer, stack, goal, calls, expansions, memo_hits, event>>

\* prove returns len(results) > 0.
ProveReturn ==
    /\ stack = <<>>
    /\ api = "prove"
    /\ EndCall(Completed("prove", ProveValue(ret), <<>>))

\* prove_with_bindings returns the results; extract_query_bindings cleans them.
SolveReturn ==
    /\ stack = <<>>
    /\ api = "solve"
    /\ EndCall(Completed("solve", FALSE, extract_query_bindings(goal, ret)))

(***************************************************************************)
(* backchain_to_goal.                                                      *)
(***************************************************************************)
BoundHypothesis == substitute(Top.hypothesis, Top.bindings)

\* An activation ends: its frame is popped and its value handed to the caller.
ReturnValue(value) ==
    /\ stack' = Popped
    /\ ret' = value

\* Lines 213-216: the depth limit.
BcDepthLimit ==
    /\ Running("backchain_to_goal", "enter")
    /\ DepthExceeded(trace_depth + 1, max_depth)
    /\ ReturnValue(<<>>)
    /\ expansions' = expansions + 1
    /\ event' = "depth"
    /\ UNCHANGED <<setup, chainer, api, goal, calls, history, memo_hits>>

\* Lines 219-222: the goal is already on the goal stack.
BcCycle ==
    /\ Running("backchain_to_goal", "enter")
    /\ ~DepthExceeded(trace_depth + 1, max_depth)
    /\ CycleDetected(BoundHypothesis, current_goals)
    /\ ReturnValue(<<>>)
    /\ expansions' = expansions + 1
    /\ event' = "cycle"
    /\ UNCHANGED <<setup, chainer, api, goal, calls, history, memo_hits>>

\* Lines 225-228: the goal is in proved_goals.
BcAlreadyProved ==
    /\ Running("backchain_to_goal", "enter")
    /\ ~DepthExceeded(trace_depth + 1, max_depth)
    /\ ~CycleDetected(BoundHypothesis, current_goals)
    /\ AlreadyProved(BoundHypothesis, proved_goals)
    /\ ReturnValue(AlreadyProvedResult(Top.bindings))
    /\ expansions' = expansions + 1
    /\ event' = "proved"
    /\ memo_hits' = memo_hits + 1
    /\ UNCHANGED <<setup, chainer, api, goal, calls, history>>

\* Lines 205-231 when no early return is taken: the goal is pushed.
BcExpand ==
    /\ Running("backchain_to_goal", "enter")
    /\ ~DepthExceeded(trace_depth + 1, max_depth)
    /\ ~CycleDetected(BoundHypothesis, current_goals)
    /\ ~AlreadyProved(BoundHypothesis, proved_goals)
    /\ expansions < MaxExpansions
    /\ trace_depth' = trace_depth + 1
    /\ current_goals' = Append(current_goals, BoundHypothesis)
    /\ stack' = WithTop([Top EXCEPT !.pc = "facts"])
    /\ expansions' = expansions + 1
    /\ event' = "expanded"
    /\ UNCHANGED <<setup, proved_goals, rule_counter, ret, api, goal, calls,
                   history, memo_hits>>

\* Lines 234-244: the loop over the facts.
BcFacts ==
    /\ Running("backchain_to_goal", "facts")
    /\ proved_goals' = proved_goals \cup FactProved(Top.hypothesis, Top.bindings, fact_order)
    /\ stack' = WithTop([Top EXCEPT !.pc = "rules", !.i = 1,
                           !.bindings = AfterFacts(Top.hypothesis, Top.bindings, fact_order),
                           !.results = FactResults(Top.hypothesis, Top.bindings, fact_order)])
    /\ UNCHANGED <<setup, trace_depth, rule_counter, current_goals, ret, api,
                   goal, calls, history, expansions, memo_hits, event>>

\* Lines 247-257: the next rule is renamed and its conclusion matched; on a
\* match _prove_premises is called.
BcTryRule ==
    /\ Running("backchain_to_goal", "rules")
    /\ Top.i <= Len(kb.rules)
    /\ rule_counter' = rule_counter + 1
    /\ LET renamed_rule == rename_rule_variables(RuleAt(kb.rules, Top.i), rule_counter + 1)
           m == match(Top.hypothesis, renamed_rule.conclusion, Top.bindings)
           after == AfterMatch(Top.hypothesis, renamed_rule.conclusion, Top.bindings)
       IN  IF m # <<>>
           THEN stack' = Append(WithTop([Top EXCEPT !.pc = "premises",
                                                    !.bindings = after,
                                                    !.match_bindings = m[1]]),
                                PpFrame(renamed_rule.premises, m[1]))
           ELSE stack' = WithTop([Top EXCEPT !.i = Top.i + 1, !.bindings = after])
    /\ UNCHANGED <<setup, trace_depth, proved_goals, current_goals, ret, api,
                   goal, calls, history, expansions, memo_hits, event>>

\* Lines 259-265: _prove_premises has returned premise_results.
BcPremisesDone ==
    /\ Running("backchain_to_goal", "premises")
    /\ IF ret # <<>>
       THEN /\ proved_goals' = proved_goals \cup
                   {MatchedHypothesis(Top.hypothesis, Top.match_bindings)}
            /\ stack' = WithTop([Top EXCEPT !.pc = "rules", !.i = Top.i + 1,
                                           !.results = Extended(Top.results, ret)])
       ELSE /\ proved_goals' = proved_goals
            /\ stack' = WithTop([Top EXCEPT !.pc = "rules", !.i = Top.i + 1])
    /\ ret' = <<>>
    /\ UNCHANGED <<setup, trace_depth, rule_counter, current_goals, api, goal,
                   calls, history, expansions, memo_hits, event>>

\* Lines 267-274: the goal is popped and the results returned.
BcExit ==
    /\ Running("backchain_to_goal", "rules")
    /\ Top.i > Len(kb.rules)
    /\ current_goals' = PoppedNewest(current_goals)
    /\ trace_depth' = trace_depth - 1
    /\ ReturnValue(Top.results)
    /\ UNCHANGED <<setup, proved_goals, rule_counter, api, goal, calls, history,
                   expansions, memo_hits, event>>

(***************************************************************************)
(* _prove_premises.                                                        *)
(***************************************************************************)
\* Lines 287-288.
PpEmpty ==
    /\ Running("_prove_premises", "enter")
    /\ Top.premises = <<>>
    /\ ReturnValue(<<Top.bindings>>)
    /\ UNCHANGED <<setup, chainer, api, goal, calls, history, expansions, memo_hits, event>>

\* Lines 291-294: backchain_to_goal is called on the first premise.
PpFirst ==
    /\ Running("_prove_premises", "enter")
    /\ Top.premises # <<>>
    /\ stack' = Append(WithTop([Top EXCEPT !.pc = "first"]),
                       BcFrame(Head(Top.premises), Top.bindings))
    /\ UNCHANGED <<setup, chainer, ret, api, goal, calls, history, expansions,
                   memo_hits, event>>

\* Lines 296-308 after the first premise: no result returns []; with no
\* remaining premises the loop appends every result and all_results is
\* returned; else the loop starts.
PpFirstDone ==
    /\ Running("_prove_premises", "first")
    /\ IF ret = <<>> \/ Tail(Top.premises) = <<>>
       THEN ReturnValue(ret)
       ELSE /\ stack' = WithTop([Top EXCEPT !.pc = "loop", !.i = 1,
                                           !.first_results = ret, !.results = <<>>])
            /\ ret' = <<>>
    /\ UNCHANGED <<setup, chainer, api, goal, calls, history, expansions, memo_hits, event>>

\* Line 303: _prove_premises is called on the remaining premises with the
\* next result of the first premise.
PpRest ==
    /\ Running("_prove_premises", "loop")
    /\ Top.i <= Len(Top.first_results)
    /\ stack' = Append(WithTop([Top EXCEPT !.pc = "rest"]),
                       PpFrame(Tail(Top.premises), Top.first_results[Top.i]))
    /\ UNCHANGED <<setup, chainer, ret, api, goal, calls, history, expansions,
                   memo_hits, event>>

\* Line 304: all_results.extend(remaining_results).
PpRestDone ==
    /\ Running("_prove_premises", "rest")
    /\ stack' = WithTop([Top EXCEPT !.pc = "loop", !.i = Top.i + 1,
                                   !.results = Extended(Top.results, ret)])
    /\ ret' = <<>>
    /\ UNCHANGED <<setup, chainer, api, goal, calls, history, expansions, memo_hits, event>>

\* Line 308: return all_results.
PpExit ==
    /\ Running("_prove_premises", "loop")
    /\ Top.i > Len(Top.first_results)
    /\ ReturnValue(Top.results)
    /\ UNCHANGED <<setup, chainer, api, goal, calls, history, expansions, memo_hits, event>>

Next ==
    \/ Prove
    \/ Solve
    \/ ProveReturn
    \/ SolveReturn
    \/ BcDepthLimit
    \/ BcCycle
    \/ BcAlreadyProved
    \/ BcExpand
    \/ BcFacts
    \/ BcTryRule
    \/ BcPremisesDone
    \/ BcExit
    \/ PpEmpty
    \/ PpFirst
    \/ PpFirstDone
    \/ PpRest
    \/ PpRestDone
    \/ PpExit

Spec == Init /\ [][Next]_vars

SessionSpec == SessionInit /\ [][Next]_vars

\* The family knowledge base under every iteration order of its fact set,
\* asked the two variable queries of the family scenario, next to the
\* scenarios of Spec.
FamilyQueries == {F2("parent", "?X", "alice"), F2("grandparent", "?X", "alice")}

FamilyInit ==
    \/ Init
    \/ \E order \in AllOrders(SeqToSet(FamilyFacts)) :
           /\ Constructed(Scenario(FamilyFacts, FamilyRules, FamilyQueries), order, <<>>, 1)
           /\ OneProver

FamilySpec == FamilyInit /\ [][Next]_vars

(***************************************************************************)
(* A second prover, constructed on a knowledge base that is the first one  *)
(* with the variables of one clause renamed, or with clauses added.        *)
(***************************************************************************)
\* A clause variable renamed by a caller: renaming maps variables to
\* variables; what it does not map stays.
RenamedTerm(t, renaming) == IF t \in DOMAIN renaming THEN renaming[t] ELSE t

RenamedAtom(fact, renaming) ==
    Fact(fact.predicate, [i \in 1..Len(fact.args) |-> RenamedTerm(fact.args[i], renaming)])

RenamedRule(rule, renaming) ==
    Rule(RenamedAtom(rule.conclusion, renaming),
         [i \in 1..Len(rule.premises) |-> RenamedAtom(rule.premises[i], renaming)])

\* The scenario with its k-th rule / k-th fact renamed.
WithRenamedRule(sc, k, renaming) ==
    [sc EXCEPT !.rule_listing[k] = RenamedRule(@, renaming)]

WithRenamedFact(sc, k, renaming) ==
    [sc EXCEPT !.fact_listing[k] = RenamedAtom(@, renaming)]

\* ?from |-> ?to
To(from, to) == [t \in {T(from)} |-> T(to)]

To2(from1, to1, from2, to2) ==
    [t \in {T(from1), T(from2)} |-> IF t = T(from1) THEN T(to1) ELSE T(to2)]

RenamedRuleVariant(sc, k, renaming) ==
    [original |-> sc, kind |-> "rule", scenario |-> WithRenamedRule(sc, k, renaming)]

RenamedFactVariant(sc, k, renaming) ==
    [original |-> sc, kind |-> "fact", scenario |-> WithRenamedFact(sc, k, renaming)]

\* The scenario with facts added at the end of its listing and with a longer
\* rule listing in its place.
ExtendedVariant(sc, more_facts, rule_listing) ==
    [original |-> sc, kind |-> "superset",
     scenario |-> [sc EXCEPT !.fact_listing = @ \o more_facts,
                             !.rule_listing = rule_listing]]

\* Top-level goals for the knowledge base of ClashFacts and ClashRules, one
\* with variables spelled like those of a second renaming.
PairGoals ==
    { Fact("pair", << <<"?Y", 2>>, <<"?X", 2>> >>), F2("pair", "?Y", "?X"),
      F2("pair", "a", "b"), F2("pair", "b", "a") }

\* Knowledge bases and the same with clauses added, the rules of the first in
\* their order.
Supersets ==
    { ExtendedVariant(Scenario(ClashFacts, ClashRules, PairGoals), <<>>,
                      <<Rule(F1("z", "?A"), <<F1("g", "?A")>>)>> \o ClashRules),
      ExtendedVariant(Scenario(ClashFacts, ClashRules, PairGoals), <<F1("g", "b")>>,
                      ClashRules \o <<Rule(F1("z", "?A"), <<F1("g", "?A")>>)>>),
      ExtendedVariant(Scenario(<<F1("s", "a")>>, SubSeq(CycleRules, 4, 4), CycleGoals),
                      <<>>, CycleRules),
      ExtendedVariant(Scenario(PathFacts, SubSeq(PathRules, 1, 1), PathGoals),
                      <<F2("edge", "c", "a")>>, PathRules),
      ExtendedVariant(Scenario(SubSeq(FamilyFacts, 1, 4), SubSeq(FamilyRules, 1, 2),
                               FamilyGoals),
                      SubSeq(FamilyFacts, 5, 6), FamilyRules) }

\* Knowledge bases and the same with one rule's, or one fact's, variables
\* renamed to names the clause does not use; and the supersets.
Variants ==
    Supersets \cup
    { RenamedRuleVariant(Scenario(ClashFacts, ClashRules, ClashGoals), 1,
                         To2("?X", "?B", "?Y", "?W")),
      RenamedRuleVariant(Scenario(MemoFacts, MemoRules, MemoGoals), 2, To("?X", "?W")),
      RenamedRuleVariant(Scenario(FamilyFacts, FamilyRules, FamilyGoals), 3, To("?Y", "?W")),
      RenamedRuleVariant(Scenario(PathFacts, PathRules, PathGoals), 2, To("?Z", "?W")),
      RenamedFactVariant(Scenario(<<F2("q", "?X", "b")>>, <<>>, SingleFactGoals), 1,
                         To("?X", "?Z")),
      RenamedFactVariant(Scenario(<<F2("q", "?X", "?X")>>, <<>>, SingleFactGoals), 1,
                         To("?X", "?Z")),
      RenamedFactVariant(Scenario(<<F1("p", "?X")>>, <<>>, SingleFactGoals), 1,
                         To("?X", "?Z")),
      RenamedFactVariant(Scenario(<<F1("g", "?X")>>, MemoRules, MemoGoals), 1,
                         To("?X", "?Z")) }

\* One call on a prover on the original knowledge base, and one on a prover
\* constructed afterwards on the renamed one; next to the scenarios of Spec.
VariantInit ==
    \/ Init
    \/ \E v \in Variants :
       \E order \in FactOrders(v.original.fact_listing) :
           /\ Constructed(v.original, order, <<>>, 1)
           /\ variant = <<v>>
           /\ prover = 1
           /\ job = NoJob
           /\ job_result = <<>>

\* BackwardChainer(kb) on the next knowledge base, built by add_fact / add_rule
\* from its listing, with the same max_depth argument.  A fact set with the
\* same members, filled in the same order, iterates as before.
NewProver ==
    /\ stack = <<>>
    /\ api = "none"
    /\ calls = budget
    /\ prover \in 1..Len(variant)
    /\ LET sc == variant[prover].scenario IN
        /\ kb' = BuildKB(sc.fact_listing, sc.rule_listing)
        /\ \E order \in FactOrders(sc.fact_listing) :
               /\ SeqToSet(sc.fact_listing) = kb.facts => order = fact_order
               /\ fact_order' = order
        /\ goals' = sc.goals
    /\ prover' = prover + 1
    /\ calls' = 0
    /\ trace_depth' = 0
    /\ proved_goals' = {}
    /\ rule_counter' = 0
    /\ current_goals' = <<>>
    /\ ret' = <<>>
    /\ expansions' = 0
    /\ memo_hits' = 0
    /\ event' = "none"
    /\ UNCHANGED <<budget, max_depth, depth_arg, variant, job, job_result, stack,
                   api, goal, history>>

VariantNext == Next \/ NewProver

VariantSpec == VariantInit /\ [][VariantNext]_vars

(***************************************************************************)
(* Calls of Fact.match on their own.                                       *)
(***************************************************************************)
\* No prover is followed: an empty knowledge base and no top-level call.
NoProver ==
    /\ Constructed(Scenario(<<>>, <<>>, {}), <<>>, <<>>, 0)
    /\ variant = <<>>
    /\ prover = 0

\* Atoms handed to Fact.match: ground ones of arity 0, 1 and 2, and some with
\* variables.
UnifyAtoms ==
    { F0("r"), F1("p", "a"), F1("p", "b"), F1("q", "a"), F2("p", "a", "b"),
      F2("p", "b", "a"), F2("p", "a", "a"), F1("p", "?X"), F2("p", "?X", "b"),
      F2("p", "a", "?Y") }

\* Environments handed to Fact.match: empty, binding to a constant, a chain.
UnifyEnvs ==
    { EmptyBindings,
      SetItem(EmptyBindings, T("?X"), T("a")),
      SetItem(EmptyBindings, T("?Y"), T("a")),
      SetItem(EmptyBindings, T("?X"), T("?Y")),
      SetItem(SetItem(EmptyBindings, T("?X"), T("?Y")), T("?Y"), T("b")) }

UnifyInit ==
    \E a, b \in UnifyAtoms :
    \E e \in UnifyEnvs :
        /\ NoProver
        /\ job = [fn |-> "match", self |-> a, other |-> b, bindings |-> e]
        /\ job_result = <<>>

\* a.match(b, e) and b.match(a, e).
MatchBothWays ==
    /\ job.fn = "match"
    /\ job_result = <<>>
    /\ job_result' = <<[forward |-> match(job.self, job.other, job.bindings),
                        backward |-> match(job.other, job.self, job.bindings)]>>
    /\ UNCHANGED <<kb, fact_order, goals, budget, max_depth, depth_arg, variant,
                   prover, job, chainer, stack, ret, api, goal, calls, history,
                   expansions, memo_hits, event>>

UnifyNext == MatchBothWays

UnifySpec == UnifyInit /\ [][UnifyNext]_vars

(***************************************************************************)
(* Successive calls of Fact.match, each on the environment the call before *)
(* returned, starting from the empty environment.                          *)
(***************************************************************************)
EnvTerms == {"?X", "?Y", "?Z", "a", "b"}

\* Atoms of one argument over all terms, and some of two arguments.
EnvAtoms ==
    {F1("p", s) : s \in EnvTerms}
        \cup {F2("p", "?X", "?Y"), F2("p", "?Y", "?X"), F2("p", "?X", "a"),
              F2("p", "a", "?Y"), F2("p", "?X", "?X")}

EnvInit ==
    /\ NoProver
    /\ job = [fn |-> "successive_matches"]
    /\ job_result = <<EmptyBindings>>

\* a.match(b, env) returns a dict, which becomes the environment of the next
\* call; the call is kept beside it.
MatchOn ==
    /\ job.fn = "successive_matches"
    /\ \E a, b \in EnvAtoms :
          LET matched == match(a, b, job_result[1])
          IN  /\ matched # <<>>
              /\ job_result' = matched \o <<[self |-> a, other |-> b,
                                              bindings |-> job_result[1]]>>
    /\ UNCHANGED <<kb, fact_order, goals, budget, max_depth, depth_arg, variant,
                   prover, job, chainer, stack, ret, api, goal, calls, history,
                   expansions, memo_hits, event>>

EnvNext == MatchOn

EnvSpec == EnvInit /\ [][EnvNext]_vars

(***************************************************************************)
(* The three chain walks, one loop iteration at a time, on every           *)
(* environment over three variables, cyclic ones included.  trail lists    *)
(* the terms the local variable "value" has held.                          *)
(***************************************************************************)
WalkVars == {T("?X"), T("?Y"), T("?Z")}

WalkTerms == WalkVars \cup {T("a")}

WalkEnvs == UNION {[keys -> WalkTerms] : keys \in SUBSET WalkVars}

Walking(value, seen, trail) ==
    [value |-> value, seen |-> seen, trail |-> trail, done |-> FALSE]

Stopped(walk) == [walk EXCEPT !.done = TRUE]

Moved(walk, value, visited) ==
    [walk EXCEPT !.value = value, !.seen = @ \cup {visited}, !.trail = Append(@, value)]

WalkInit ==
    /\ NoProver
    /\ \E arg \in WalkTerms, bindings \in WalkEnvs :
          \* "value = arg; seen = {arg}" of substitute (lines 41-42)
          \/ /\ job = [fn |-> "substitute", arg |-> arg, bindings |-> bindings]
             /\ job_result = <<Walking(arg, {arg}, <<arg>>)>>
          \* "value = var; seen = {var}" of _resolve_binding (lines 56-57)
          \/ /\ IsVar(arg)
             /\ job = [fn |-> "_resolve_binding", arg |-> arg, bindings |-> bindings]
             /\ job_result = <<Walking(arg, {arg}, <<arg>>)>>
          \* "value = bindings[var]; seen = {var}" of extract_query_bindings
          \* (lines 449-450), which walks from the bound query variables only
          \/ /\ IsVar(arg) /\ arg \in DOMAIN bindings
             /\ job = [fn |-> "extract_query_bindings", arg |-> arg, bindings |-> bindings]
             /\ job_result = <<Walking(bindings[arg], {arg}, <<arg, bindings[arg]>>)>>

WalkUnchanged ==
    UNCHANGED <<kb, fact_order, goals, budget, max_depth, depth_arg, variant,
                prover, job, chainer, stack, ret, api, goal, calls, history,
                expansions, memo_hits, event>>

\* One test of "while value in bindings" of Fact.substitute and the body of
\* the loop (lines 43-50).
SubstituteStep ==
    /\ job.fn = "substitute"
    /\ ~job_result[1].done
    /\ LET walk == job_result[1]
           value == walk.value
       IN  job_result' =
               IF value \notin DOMAIN job.bindings THEN <<Stopped(walk)>>
               ELSE IF value \in walk.seen /\ value # job.arg THEN <<Stopped(walk)>>
               ELSE LET next_value == job.bindings[value] IN
                    IF next_value = value THEN <<Stopped(walk)>>
                    ELSE <<Moved(walk, next_value, value)>>
    /\ WalkUnchanged

\* One test of "while value in bindings" of Fact._resolve_binding and the body
\* of the loop (lines 58-63).
ResolveStep ==
    /\ job.fn = "_resolve_binding"
    /\ ~job_result[1].done
    /\ LET walk == job_result[1]
           value == walk.value
       IN  job_result' =
               IF value \notin DOMAIN job.bindings THEN <<Stopped(walk)>>
               ELSE LET next_value == job.bindings[value] IN
                    IF next_value = value \/ next_value \in walk.seen THEN <<Stopped(walk)>>
                    ELSE <<Moved(walk, next_value, next_value)>>
    /\ WalkUnchanged

\* One test of "while value in bindings and value.startswith('?')" of
\* extract_query_bindings and the body of the loop (lines 451-455).
ChainStep ==
    /\ job.fn = "extract_query_bindings"
    /\ ~job_result[1].done
    /\ LET walk == job_result[1]
           value == walk.value
       IN  job_result' =
               IF ~(value \in DOMAIN job.bindings /\ IsVar(value)) THEN <<Stopped(walk)>>
               ELSE IF value \in walk.seen THEN <<Stopped(walk)>>
               ELSE <<Moved(walk, job.bindings[value], value)>>
    /\ WalkUnchanged

WalkNext == SubstituteStep \/ ResolveStep \/ ChainStep

\* The loops run on: an iteration that can be taken is taken.
WalkSpec == WalkInit /\ [][WalkNext]_vars /\ WF_vars(WalkNext)

(***************************************************************************)
(* The Prolog parser (task_8/prolog_parser.py).  A str is the sequence of  *)
(* its characters.                                                         *)
(***************************************************************************)
Whitespace == {" "}

\* str.isupper() of one character.
UpperCase == {"X", "Y", "Z", "B", "W"}

\* \w of the re module.
WordChars == UpperCase \cup {"a", "b", "h", "p", "q", "r", "s", "t", "_", "1"}

RECURSIVE LStrip(_)
LStrip(str) ==
    IF str # <<>> /\ Head(str) \in Whitespace THEN LStrip(Tail(str)) ELSE str

RECURSIVE RStripChars(_, _)
RStripChars(str, chars) ==
    IF str # <<>> /\ str[Len(str)] \in chars
    THEN RStripChars(SubSeq(str, 1, Len(str) - 1), chars)
    ELSE str

\* str.strip()
Strip(str) == RStripChars(LStrip(str), Whitespace)

\* str.rstrip('.')
RStripDot(str) == RStripChars(str, {"."})

\* sub in str, from position i on.
StartsAt(str, sub, i) ==
    i + Len(sub) - 1 <= Len(str) /\ SubSeq(str, i, i + Len(sub) - 1) = sub

\* str.find(sub) as a position from 1, 0 when sub is not in str.
Find(str, sub) ==
    LET places == {i \in 1..Len(str) : StartsAt(str, sub, i)}
    IN  IF places = {} THEN 0 ELSE CHOOSE i \in places : \A j \in places : i <= j

\* "sub in str"
Contains(str, sub) == Find(str, sub) # 0

\* str.split(sep)
RECURSIVE Split(_, _)
Split(str, sep) ==
    LET at == Find(str, sep) IN
    IF at = 0 THEN <<str>>
    ELSE <<SubSeq(str, 1, at - 1)>> \o Split(SubSeq(str, at + Len(sep), Len(str)), sep)

\* The length of the longest prefix of word characters.
RECURSIVE WordPrefix(_)
WordPrefix(str) ==
    IF str # <<>> /\ Head(str) \in WordChars THEN 1 + WordPrefix(Tail(str)) ELSE 0

\* re.match(r'(\w+)\((.*?)\)', fact_str): <<>> for no match, else
\* <<[predicate, args_str]>>: the word characters at the start, which an
\* opening parenthesis must follow, and what stands before the first closing
\* parenthesis after it.
FactPattern(fact_str) ==
    LET n == WordPrefix(fact_str)
        rest == SubSeq(fact_str, n + 2, Len(fact_str))
        close == Find(rest, <<")">>)
    IN  IF n = 0 \/ n + 1 > Len(fact_str) \/ fact_str[n + 1] # "(" \/ close = 0
        THEN <<>>
        ELSE <<[predicate |-> SubSeq(fact_str, 1, n),
                args_str |-> SubSeq(rest, 1, close - 1)]>>

\* Lines 64-73: '_' becomes '?_', a name with an upper-case first character
\* gets the prefix '?', anything else is a constant.
ConvertedArg(arg) ==
    IF arg = <<"_">> THEN <<"?", "_">>
    ELSE IF arg # <<>> /\ arg[1] \in UpperCase THEN <<"?">> \o arg
    ELSE arg

\* parse_prolog_fact: <<>> for None, else <<Fact>>.
parse_prolog_fact(fact_str) ==
    LET found == FactPattern(RStripDot(Strip(fact_str)))
    IN  IF found = <<>> THEN <<>>
        ELSE IF found[1].args_str = <<>> THEN <<Fact(found[1].predicate, <<>>)>>
        ELSE LET args_raw == Split(found[1].args_str, <<",">>)
             IN  <<Fact(found[1].predicate,
                        [k \in 1..Len(args_raw) |-> ConvertedArg(Strip(args_raw[k]))])>>

\* The loop of split_premises from the i-th character on.
RECURSIVE SplitPremisesFrom(_, _, _, _, _)
SplitPremisesFrom(premises_str, i, premises, current, paren_depth) ==
    IF i > Len(premises_str)
    THEN IF Strip(current) # <<>> THEN Append(premises, Strip(current)) ELSE premises
    ELSE LET char == premises_str[i] IN
         IF char = "("
         THEN SplitPremisesFrom(premises_str, i + 1, premises, Append(current, char),
                                paren_depth + 1)
         ELSE IF char = ")"
         THEN SplitPremisesFrom(premises_str, i + 1, premises, Append(current, char),
                                paren_depth - 1)
         ELSE IF char = "," /\ paren_depth = 0
         THEN SplitPremisesFrom(premises_str, i + 1, Append(premises, Strip(current)),
                                <<>>, paren_depth)
         ELSE SplitPremisesFrom(premises_str, i + 1, premises, Append(current, char),
                                paren_depth)

split_premises(premises_str) == SplitPremisesFrom(premises_str, 1, <<>>, <<>>, 0)

\* Line 151: "if '\\=' in premise_str or premise_str.startswith('_')"
Skipped(premise_str) ==
    Contains(premise_str, <<"\\", "=">>) \/ StartsAt(premise_str, <<"_">>, 1)

\* Lines 147-156: the premises that are not skipped and that parse.
RECURSIVE ParsedPremises(_)
ParsedPremises(premise_strs) ==
    IF premise_strs = <<>> THEN <<>>
    ELSE IF Skipped(Head(premise_strs)) THEN ParsedPremises(Tail(premise_strs))
    ELSE parse_prolog_fact(Head(premise_strs)) \o ParsedPremises(Tail(premise_strs))

\* parse_prolog_rule: <<>> for None, else <<Rule>>.
parse_prolog_rule(rule_str) ==
    LET stripped == RStripDot(Strip(rule_str))
        parts == Split(stripped, <<":", "-">>)
    IN  IF ~Contains(stripped, <<":", "-">>) THEN <<>>
        ELSE IF Len(parts) # 2 THEN <<>>
        ELSE LET conclusion == parse_prolog_fact(Strip(parts[1]))
             IN  IF conclusion = <<>> THEN <<>>
                 ELSE <<Rule(conclusion[1],
                             ParsedPremises(split_premises(Strip(parts[2]))))>>

\* parse_prolog_line: <<>> for None, else <<[kind, obj]>>.
parse_prolog_line(line) ==
    LET stripped == Strip(line) IN
    IF stripped = <<>> \/ StartsAt(stripped, <<"%">>, 1) THEN <<>>
    ELSE IF Contains(stripped, <<":", "-">>)
    THEN LET rule == parse_prolog_rule(stripped)
         IN  IF rule # <<>> THEN <<[kind |-> "rule", obj |-> rule[1]]>> ELSE <<>>
    ELSE LET fact == parse_prolog_fact(stripped)
         IN  IF fact # <<>> THEN <<[kind |-> "fact", obj |-> fact[1]]>> ELSE <<>>

\* str.endswith('.')
EndsWithDot(str) == str # <<>> /\ str[Len(str)] = "."

\* Lines 218-223: the lists after one statement is processed.
WithStatement(parsed, current_statement) ==
    LET result == parse_prolog_line(current_statement) IN
    IF result = <<>> THEN parsed
    ELSE IF result[1].kind = "fact"
    THEN [parsed EXCEPT !.facts = Append(@, result[1].obj)]
    ELSE [parsed EXCEPT !.rules = Append(@, result[1].obj)]

\* The loop of parse_prolog_file over the lines of the file, from the i-th on.
RECURSIVE FileLoop(_, _, _, _)
FileLoop(lines, i, parsed, current_statement) ==
    IF i > Len(lines) THEN parsed
    ELSE LET line == Strip(lines[i]) IN
         IF line = <<>> \/ StartsAt(line, <<"%">>, 1)
         THEN FileLoop(lines, i + 1, parsed, current_statement)
         ELSE LET statement == current_statement \o <<" ">> \o line IN
              IF EndsWithDot(Strip(statement))
              THEN FileLoop(lines, i + 1, WithStatement(parsed, statement), <<>>)
              ELSE FileLoop(lines, i + 1, parsed, statement)

\* parse_prolog_file on a file given as the sequence of its lines.
parse_prolog_file(lines) == FileLoop(lines, 1, [facts |-> <<>>, rules |-> <<>>], <<>>)

(***************************************************************************)
(* Calls of the parser on clause texts.  A text is written from a surface  *)
(* clause by the grammar  atom := ident "(" arg ("," arg)* ")" | ident ,   *)
(* rule := atom ":-" atom ("," atom)* , with a premise  X \= a  for a      *)
(* disequality.                                                            *)
(***************************************************************************)
\* The longest rule body written.
MaxBody == 3

Surface(predicate, args) == [predicate |-> predicate, args |-> args, diseq |-> FALSE]

Disequality(left, right) == [predicate |-> <<>>, args |-> <<left, right>>, diseq |-> TRUE]

RECURSIVE Joined(_, _)
Joined(strs, sep) ==
    IF strs = <<>> THEN <<>>
    ELSE IF Len(strs) = 1 THEN strs[1]
    ELSE strs[1] \o sep \o Joined(Tail(strs), sep)

WrittenAtom(atom) ==
    IF atom.diseq THEN atom.args[1] \o <<" ", "\\", "=", " ">> \o atom.args[2]
    ELSE IF atom.args = <<>> THEN atom.predicate
    ELSE atom.predicate \o <<"(">> \o Joined(atom.args, <<",", " ">>) \o <<")">>

WrittenRule(head, body) ==
    WrittenAtom(head) \o <<" ", ":", "-", " ">>
        \o Joined([k \in 1..Len(body) |-> WrittenAtom(body[k])], <<",", " ">>) \o <<".">>

\* Atoms given to parse_prolog_fact: p(_, _), p(_, a), q(_), p(X, Y), p(X, X)
\* and ground atoms of both predicates.
SurfaceAtoms ==
    { Surface(<<"p">>, << <<"_">>, <<"_">> >>), Surface(<<"p">>, << <<"_">>, <<"a">> >>),
      Surface(<<"q">>, << <<"_">> >>), Surface(<<"p">>, << <<"X">>, <<"Y">> >>),
      Surface(<<"p">>, << <<"X">>, <<"X">> >>), Surface(<<"p">>, << <<"a">>, <<"b">> >>),
      Surface(<<"p">>, << <<"b">>, <<"a">> >>), Surface(<<"p">>, << <<"a">>, <<"a">> >>),
      Surface(<<"q">>, << <<"a">> >>), Surface(<<"q">>, << <<"b">> >>) }

\* Premises of a rule body: p(X), q(X, a), s(Y), the atom r without
\* arguments, and the disequality X \= a.
SurfacePremises ==
    { Surface(<<"p">>, << <<"X">> >>), Surface(<<"q">>, << <<"X">>, <<"a">> >>),
      Surface(<<"s">>, << <<"Y">> >>), Surface(<<"r">>, <<>>),
      Disequality(<<"X">>, <<"a">>) }

SurfaceBodies ==
    UNION {[1..n -> SurfacePremises] : n \in 1..MaxBody}

\* The head of every rule written: h(X).
SurfaceHead == Surface(<<"h">>, << <<"X">> >>)

\* The most clauses and comments in a file.
MaxClauses == 3

FactClause(atom) ==
    [kind |-> "fact", head |-> atom, body |-> <<>>, text |-> WrittenAtom(atom) \o <<".">>]

RuleClause(head, body) ==
    [kind |-> "rule", head |-> head, body |-> body, text |-> WrittenRule(head, body)]

NotAClause(kind, text) == [kind |-> kind, head |-> <<>>, body |-> <<>>, text |-> text]

\* What a file is made of: the facts p(a). and q(X, b)., the rule
\* h(X) :- p(X)., the malformed clauses p(a. (unbalanced) and (a). (no
\* predicate name), and the comment % a.
FileItems ==
    { FactClause(Surface(<<"p">>, << <<"a">> >>)),
      FactClause(Surface(<<"q">>, << <<"X">>, <<"b">> >>)),
      RuleClause(SurfaceHead, << Surface(<<"p">>, << <<"X">> >>) >>),
      NotAClause("malformed", <<"p", "(", "a", ".">>),
      NotAClause("malformed", <<"(", "a", ")", ".">>),
      NotAClause("comment", <<"%", " ", "a">>) }

\* The lines of a file: items[k + 1] starts a new line when newline[k], and
\* follows items[k] on its line after a space otherwise.
RECURSIVE WrittenLines(_, _, _, _)
WrittenLines(items, newline, k, lines) ==
    IF k > Len(items) THEN lines
    ELSE IF k = 1 \/ newline[k - 1]
    THEN WrittenLines(items, newline, k + 1, Append(lines, items[k].text))
    ELSE WrittenLines(items, newline, k + 1,
                      [lines EXCEPT ![Len(lines)] = @ \o <<" ">> \o items[k].text])

SurfaceFiles ==
    UNION {[items : [1..n -> FileItems], newline : [1..(n - 1) -> BOOLEAN]] : n \in 1..MaxClauses}

ParseInit ==
    /\ NoProver
    /\ job_result = <<>>
    /\ \/ \E a, b \in SurfaceAtoms :
            job = [fn |-> "parse_prolog_fact", fact_str |-> WrittenAtom(a),
                   other_str |-> WrittenAtom(b)]
       \/ \E body \in SurfaceBodies :
            job = [fn |-> "parse_prolog_rule", rule_str |-> WrittenRule(SurfaceHead, body)]
       \/ \E file \in SurfaceFiles :
            job = [fn |-> "parse_prolog_file", written |-> file,
                   lines |-> WrittenLines(file.items, file.newline, 1, <<>>)]

\* parse_prolog_fact of two texts, and Fact.match of the first atom with the
\* second when both are parsed.
ParseFacts ==
    /\ job.fn = "parse_prolog_fact"
    /\ job_result = <<>>
    /\ LET fact == parse_prolog_fact(job.fact_str)
           other == parse_prolog_fact(job.other_str)
       IN  job_result' =
               <<[fact |-> fact, other |-> other,
                  matched |-> IF fact # <<>> /\ other # <<>>
                              THEN match(fact[1], other[1], EmptyBindings) ELSE <<>>]>>
    /\ UNCHANGED <<kb, fact_order, goals, budget, max_depth, depth_arg, variant,
                   prover, job, chainer, stack, ret, api, goal, calls, history,
                   expansions, memo_hits, event>>

\* parse_prolog_rule of one text.
ParseRule ==
    /\ job.fn = "parse_prolog_rule"
    /\ job_result = <<>>
    /\ job_result' = <<[rule |-> parse_prolog_rule(job.rule_str)]>>
    /\ UNCHANGED <<kb, fact_order, goals, budget, max_depth, depth_arg, variant,
                   prover, job, chainer, stack, ret, api, goal, calls, history,
                   expansions, memo_hits, event>>

\* parse_prolog_file of one file.
ParseFile ==
    /\ job.fn = "parse_prolog_file"
    /\ job_result = <<>>
    /\ job_result' = <<parse_prolog_file(job.lines)>>
    /\ UNCHANGED <<kb, fact_order, goals, budget, max_depth, depth_arg, variant,
                   prover, job, chainer, stack, ret, api, goal, calls, history,
                   expansions, memo_hits, event>>

ParseNext == ParseFacts \/ ParseRule \/ ParseFile

ParseSpec == ParseInit /\ [][ParseNext]_vars

(***************************************************************************)
(* The graph of LangGraphReasoner: one run of reason, node by node.  The    *)
(* state of the run is job_result[1]; its field node is the node to run     *)
(* next and ran the nodes run so far.  What the document store and the      *)
(* language model answer is any value of a small set.                       *)
(***************************************************************************)
MaxIterations == 3

\* The prolog entries of the documents query_kb returns.
FactDoc == WrittenAtom(Surface(<<"p">>, << <<"a">> >>)) \o <<".">>
RuleDoc == WrittenRule(SurfaceHead, << Surface(<<"p">>, << <<"X">> >>) >>)
DocLists == { <<FactDoc>>, <<FactDoc, RuleDoc>> }

\* What the model answers to the relevancy prompt: SCORE in tenths and
\* REFINEMENT.
Scores == {6, 9}
Refinements == {"none", "more rules"}

\* What the model answers to the parse prompt: an atom, and a text that is
\* not one.
QueryTexts == { <<"p", "(", "a", ")">>, <<"p", "(", "a">> }

\* parse_prolog_line on the documents and parse_prolog_fact on the answers,
\* computed once.
ParsedDoc == [doc \in {FactDoc, RuleDoc} |-> parse_prolog_line(doc)]
ParsedQuery == [prolog_query \in QueryTexts |-> parse_prolog_fact(prolog_query)]

\* should_refine with the iteration limit counted inclusively.
should_refine_inclusive(state) ==
    IF state.needs_refinement /\ state.iteration <= state.max_iterations
    THEN "refine" ELSE "parse"

\* should_refine (lines 149-159).
should_refine(state) ==
    IF state.needs_refinement /\ state.iteration < state.max_iterations
    THEN "refine" ELSE "parse"

\* initial_state of reason (lines 443-457); the entry point is retrieve.
InitialState(max_iterations) ==
    [node |-> "retrieve", ran |-> <<>>,
     retrieved_docs |-> <<>>, relevancy_score |-> 0, needs_refinement |-> FALSE,
     refinement_query |-> "", parsed_fact |-> <<>>, knowledge_base |-> <<>>,
     inference_result |-> FALSE, final_answer |-> "", iteration |-> 0,
     max_iterations |-> max_iterations]

GraphInit ==
    /\ NoProver
    /\ \E max_iterations \in 0..MaxIterations :
          /\ job = [fn |-> "reason", max_iterations |-> max_iterations]
          /\ job_result = <<InitialState(max_iterations)>>

GraphUnchanged ==
    UNCHANGED <<kb, fact_order, goals, budget, max_depth, depth_arg, variant,
                prover, job, chainer, stack, ret, api, goal, calls, history,
                expansions, memo_hits, event>>

\* The node to run is node; after it the run goes to next.
Ran(state, node, next) ==
    [state EXCEPT !.ran = Append(@, node), !.node = next]

\* The loop of build_kb_node (lines 348-357) from document k on.
RECURSIVE KbFromDocs(_, _, _)
KbFromDocs(docs, k, knowledge_base) ==
    IF k > Len(docs) THEN knowledge_base
    ELSE LET result == ParsedDoc[docs[k]] IN
         KbFromDocs(docs, k + 1,
             IF result = <<>> THEN knowledge_base
             ELSE IF result[1].kind = "fact"
             THEN add_fact(knowledge_base, result[1].obj)
             ELSE IF result[1].kind = "rule"
             THEN add_rule(knowledge_base, result[1].obj)
             ELSE knowledge_base)

\* retrieve_node (lines 161-178), then the edge retrieve -> judge_relevancy.
RetrieveNode ==
    /\ job.fn = "reason"
    /\ job_result[1].node = "retrieve"
    /\ \E docs \in DocLists :
          job_result' =
              <<Ran([job_result[1] EXCEPT !.retrieved_docs = docs],
                    "retrieve", "judge_relevancy")>>
    /\ GraphUnchanged

\* judge_relevancy_node (lines 180-275), then the conditional edge on
\* should_refine.
JudgeRelevancyNode ==
    /\ job.fn = "reason"
    /\ job_result[1].node = "judge_relevancy"
    /\ \E score \in Scores, refinement \in Refinements :
          LET needs_refinement == score < 7 /\ refinement # "none"
              judged == [job_result[1] EXCEPT
                            !.relevancy_score = score,
                            !.needs_refinement = needs_refinement,
                            !.refinement_query =
                                IF needs_refinement THEN refinement ELSE "question"]
          IN  job_result' = <<Ran(judged, "judge_relevancy", should_refine(judged))>>
    /\ GraphUnchanged

\* refine_node (lines 277-298), then the edge refine -> judge_relevancy.
RefineNode ==
    /\ job.fn = "reason"
    /\ job_result[1].node = "refine"
    /\ \E additional_docs \in DocLists :
          LET state == job_result[1]
              existing_prolog == SeqToSet(state.retrieved_docs)
              NotExisting(d) == d \notin existing_prolog
              new_docs == SelectSeq(additional_docs, NotExisting)
          IN  job_result' =
                  <<Ran([state EXCEPT !.retrieved_docs = @ \o new_docs,
                                      !.iteration = @ + 1,
                                      !.needs_refinement = FALSE],
                        "refine", "judge_relevancy")>>
    /\ GraphUnchanged

\* parse_node (lines 300-340), then the edge parse -> build_kb.
ParseNode ==
    /\ job.fn = "reason"
    /\ job_result[1].node = "parse"
    /\ \E prolog_query \in QueryTexts :
          job_result' =
              <<Ran([job_result[1] EXCEPT !.parsed_fact = ParsedQuery[prolog_query]],
                    "parse", "build_kb")>>
    /\ GraphUnchanged

\* build_kb_node (lines 342-363), then the edge build_kb -> infer.
BuildKbNode ==
    /\ job.fn = "reason"
    /\ job_result[1].node = "build_kb"
    /\ job_result' =
           <<Ran([job_result[1] EXCEPT
                     !.knowledge_base =
                         <<KbFromDocs(job_result[1].retrieved_docs, 1, NewKnowledgeBase)>>],
                 "build_kb", "infer")>>
    /\ GraphUnchanged

\* infer_node (lines 365-392), then the edge infer -> format.  The value of
\* chainer.prove is either boolean here; the call itself is followed in Spec.
InferNode ==
    /\ job.fn = "reason"
    /\ job_result[1].node = "infer"
    /\ \E result \in BOOLEAN :
          job_result' =
              <<Ran([job_result[1] EXCEPT
                        !.inference_result =
                            IF job_result[1].parsed_fact = <<>> THEN FALSE ELSE result],
                    "infer", "format")>>
    /\ GraphUnchanged

\* format_node (lines 394-422), then the edge format -> END.
FormatNode ==
    /\ job.fn = "reason"
    /\ job_result[1].node = "format"
    /\ job_result' =
           <<Ran([job_result[1] EXCEPT !.final_answer = "answer"], "format", "END")>>
    /\ GraphUnchanged

GraphNext ==
    \/ RetrieveNode
    \/ JudgeRelevancyNode
    \/ RefineNode
    \/ ParseNode
    \/ BuildKbNode
    \/ InferNode
    \/ FormatNode

\* Each node call returns and the graph goes on to the next node.
GraphSpec == GraphInit /\ [][GraphNext]_vars /\ WF_vars(GraphNext)

\* The prover is synchronous code: a step that can be taken is taken.
FairSpec == Spec /\ WF_vars(Next)
(***************************************************************************)
(* The least model of a knowledge base, by forward chaining: the reference *)
(* against which the returned solutions are stated.  A clause's variables  *)
(* are its own; they range over the constants of the knowledge base and of *)
(* the goal.                                                               *)
(***************************************************************************)
ConstantsOf(fact) == {fact.args[i] : i \in {j \in 1..Len(fact.args) : ~IsVar(fact.args[j])}}

RuleAtoms(rule) == {rule.conclusion} \cup SeqToSet(rule.premises)

KBAtoms == kb.facts \cup UNION {RuleAtoms(kb.rules[i]) : i \in 1..Len(kb.rules)}

Universe(hypothesis) == UNION {ConstantsOf(a) : a \in KBAtoms \cup {hypothesis}}

\* The atom with its variables replaced by the constants sigma gives them.
Instance(fact, sigma) ==
    Fact(fact.predicate,
         [i \in 1..Len(fact.args) |->
             IF IsVar(fact.args[i]) THEN sigma[fact.args[i]] ELSE fact.args[i]])

Instances(fact, U) == {Instance(fact, sigma) : sigma \in [VarsOf(fact) -> U]}

RuleVars(rule) == UNION {VarsOf(a) : a \in RuleAtoms(rule)}

\* The heads a rule yields from the ground atoms in known.
RuleConsequences(rule, known, U) ==
    {Instance(rule.conclusion, sigma) :
        sigma \in {s \in [RuleVars(rule) -> U] :
                      \A k \in 1..Len(rule.premises) : Instance(rule.premises[k], s) \in known}}

\* One round of forward chaining.
Consequences(known, U) ==
    UNION {Instances(f, U) : f \in kb.facts}
    \cup UNION {RuleConsequences(kb.rules[i], known, U) : i \in 1..Len(kb.rules)}

\* The ground atoms with a derivation whose goal nesting is at most n.
RECURSIVE DerivableFrom(_, _, _)
DerivableFrom(known, n, U) ==
    IF n = 0 THEN known
    ELSE LET more == Consequences(known, U) IN
         IF more = known THEN known ELSE DerivableFrom(more, n - 1, U)

DerivableWithin(n, U) == DerivableFrom({}, n, U)

\* answer is ground_atom, or leaves variables open and has it as an instance.
Covers(answer, ground_atom) == ground_atom \in Instances(answer, ConstantsOf(ground_atom))

Calls == 1..Len(history)

(***************************************************************************)
(* Claims.                                                                 *)
(***************************************************************************)
\* C1: for every KB and goal, prove(goal) returns true if and only if the
\* solutions surfaced for that goal (prove_with_bindings followed by
\* extract_query_bindings) are a non-empty list.
C1_ProveIffSolutions ==
    \A i, j \in Calls :
        (/\ history[i].api = "prove"
         /\ history[j].api = "solve"
         /\ history[i].goal = history[j].goal)
        => (history[i].proved <=> history[j].solutions # <<>>)

\* C2: fact round trip: with a single fact f in the KB (and a depth limit of
\* at least one goal), prove(f) is true and solve(f) returns exactly one
\* solution, which has no bindings.
C2_FactRoundTrip ==
    \A i \in Calls :
        (kb.rules = <<>> /\ kb.facts = {history[i].goal} /\ max_depth >= 1)
        => IF history[i].api = "prove"
           THEN history[i].proved
           ELSE history[i].solutions = <<EmptyBindings>>

\* C3: solve enumerates all solutions: every assignment of constants to the
\* goal's variables under which the goal is derivable with goal nesting within
\* max_depth is among the returned solutions.  Stated in its weakest reading:
\* the assignment counts as returned when some environment returned by
\* prove_with_bindings resolves the goal to that instance, or to an atom that
\* leaves variables open and has that instance.
C3_AllSolutions ==
    \A i \in Calls :
        history[i].api = "solve" =>
            LET g == history[i].goal
                U == Universe(g)
                answers == {substitute(g, history[i].results[k]) :
                               k \in 1..Len(history[i].results)}
            IN  \A wanted \in Instances(g, U) \cap DerivableWithin(max_depth, U) :
                    \E answer \in answers : Covers(answer, wanted)

\* C4: for any finite KB, directly and mutually recursive rules included, a
\* top-level prove / solve call terminates: every call that starts returns.
C4_Terminates == [](api # "none" => <>(api = "none"))

\* A call on the default depth limit that expanded goals down to the limit
\* has returned.
C4_Witness == api = "none" /\ Len(history) = 1 /\ expansions > 50

\* The goal whose activation has just returned to _prove_premises.
ReturnedGoal == substitute(Head(Top.premises), Top.bindings)

\* C5: the goal stack never holds more than max_depth goals; a goal that would
\* be nested deeper returns no solutions; max_depth is 50 when the caller
\* does not set it.
C5_DepthBound ==
    /\ Len(current_goals) <= max_depth
    /\ depth_arg = <<>> => max_depth = 50
    /\ (Running("_prove_premises", "first") /\ Len(current_goals) = max_depth)
       => ret = <<>>

\* A goal has just been refused at the default limit of 50 open goals.
C5_Witness ==
    /\ Running("_prove_premises", "first")
    /\ depth_arg = <<>>
    /\ Len(current_goals) = 50
    /\ event = "depth"
    /\ ret = <<>>

\* C6: a goal whose resolved form is already on the goal stack yields no
\* solutions, and the goal stack never contains two equal atoms.
C6_NoRepeatedGoal ==
    /\ \A i, j \in 1..Len(current_goals) : current_goals[i] = current_goals[j] => i = j
    /\ (Running("_prove_premises", "first") /\ ReturnedGoal \in SeqToSet(current_goals))
       => ret = <<>>

\* A goal equal to an open goal has just been refused as a cycle.
C6_Witness ==
    /\ Running("_prove_premises", "first")
    /\ ReturnedGoal \in SeqToSet(current_goals)
    /\ event = "cycle"
    /\ ret = <<>>

\* C7: at the entry of every top-level call the proved set is empty, the goal
\* stack is empty and the rule counter is at its initial value 0.
C7_ResetAtEntry ==
    (Len(stack) = 1 /\ Running("backchain_to_goal", "enter"))
    => (proved_goals = {} /\ current_goals = <<>> /\ rule_counter = 0)

\* C8: every atom in the proved set is ground.
C8_ProvedGround == \A a \in proved_goals : IsGround(a)

\* C9: memo idempotence: a goal proved through a rule with the premise twice
\* (twice(..) :- g, g) has the same solutions as through the rule with the
\* premise once (once(..) :- g); and a goal found in the proved set is
\* answered with the current environment alone, no binding added.
C9_MemoIdempotent ==
    /\ [](\A i, j \in Calls :
            (/\ history[i].goal.predicate = "once"
             /\ history[j].goal.predicate = "twice"
             /\ history[i].goal.args = history[j].goal.args
             /\ history[i].api = history[j].api)
            => /\ history[i].proved = history[j].proved
               /\ SeqToSet(history[i].solutions) = SeqToSet(history[j].solutions))
    /\ [][memo_hits' = memo_hits + 1 => ret' = <<Top.bindings>>]_vars

\* solve(once(?X)) and then solve(twice(?X)), whose second premises were
\* answered from the proved set, both with solutions.
C9_Witness ==
    /\ api = "none"
    /\ Len(history) = 2
    /\ history[1].api = "solve" /\ history[1].goal = F1("once", "?X")
    /\ history[2].api = "solve" /\ history[2].goal = F1("twice", "?X")
    /\ memo_hits >= 2
    /\ Len(history[2].solutions) = 2

\* C10: every surfaced solution maps only variables of the top-level goal, and
\* maps them to constants.
C10_OnlyQueryVariables ==
    \A i \in Calls :
        \A k \in 1..Len(history[i].solutions) :
            LET solution == history[i].solutions[k] IN
            /\ DOMAIN solution \subseteq VarsOf(history[i].goal)
            /\ \A var \in DOMAIN solution : ~IsVar(solution[var])

\* A surfaced solution of a proof whose environments bind renamed rule
\* variables.
C10_Witness ==
    \E i \in Calls :
        /\ history[i].solutions # <<>>
        /\ \E k \in 1..Len(history[i].results) :
               ~(DOMAIN history[i].results[k] \subseteq VarsOf(history[i].goal))

(***************************************************************************)
(* Surfaced solutions and the derivations behind them.                     *)
(***************************************************************************)
\* The completed solve calls.
SolveCalls == {i \in Calls : history[i].api = "solve"}

\* The mapping of the query variables that one derivation (one environment
\* returned by prove_with_bindings) stands for: each query variable walked
\* through its chain, kept when the chain ends in a constant.
QueryMapping(hypothesis, bindings) == CleanBindings(VarsOf(hypothesis), bindings)

\* The mappings derived for a goal, in the order of their derivation.  A
\* mapping without any binding counts for a goal without variables only.
DerivedMappings(hypothesis, bindings_list) ==
    LET Counts(mapping) == DOMAIN mapping # {} \/ IsGround(hypothesis)
    IN  SelectSeq([k \in 1..Len(bindings_list) |->
                      QueryMapping(hypothesis, bindings_list[k])], Counts)

\* Where x occurs first in s.
FirstIndex(s, x) == CHOOSE k \in 1..Len(s) : s[k] = x /\ \A j \in 1..(k - 1) : s[j] # x

\* The number of places of s that hold x.
Occurrences(s, x) == Cardinality({k \in 1..Len(s) : s[k] = x})

\* C11: the surfaced solution list holds each distinct derived mapping of the
\* query variables exactly once, in the order of the first derivations, also
\* when a mapping is derived several times.
C11_EachMappingOnce ==
    \A i \in SolveCalls :
        LET derived == DerivedMappings(history[i].goal, history[i].results)
            solutions == history[i].solutions
        IN  /\ \A k \in 1..Len(derived) : Occurrences(solutions, derived[k]) = 1
            /\ \A k \in 1..Len(solutions) : Occurrences(derived, solutions[k]) >= 1
            /\ \A m, n \in 1..Len(solutions) :
                   m < n => FirstIndex(derived, solutions[m]) < FirstIndex(derived, solutions[n])

\* One solution: the query variable "?X" mapped to a constant.
XIs(constant) == [var \in {T("?X")} |-> T(constant)]

FamilyKB == BuildKB(FamilyFacts, FamilyRules)

\* C12: on the family knowledge base, with the default depth limit,
\* solve(parent(X, alice)) returns exactly [{X = tom}, {X = jane}] and
\* solve(grandparent(X, alice)) exactly [{X = john}, {X = susan}], in that
\* order, whatever the iteration order of the fact set.
C12_FamilySolutions ==
    \A i \in SolveCalls :
        (kb = FamilyKB /\ depth_arg = <<>>) =>
            /\ history[i].goal = F2("parent", "?X", "alice")
               => history[i].solutions = <<XIs("tom"), XIs("jane")>>
            /\ history[i].goal = F2("grandparent", "?X", "alice")
               => history[i].solutions = <<XIs("john"), XIs("susan")>>

\* solve(grandparent(X, alice)) has returned john and then susan on a fact
\* set that iterates neither in listing order nor in its reverse, the mother
\* facts coming before the father facts.
C12_Witness ==
    /\ kb = FamilyKB /\ depth_arg = <<>>
    /\ fact_order \notin {FamilyFacts, Reverse(FamilyFacts)}
    /\ fact_order[1] = F2("mother", "jane", "alice")
    /\ fact_order[2] = F2("mother", "susan", "tom")
    /\ \E i \in SolveCalls :
           /\ history[i].goal = F2("grandparent", "?X", "alice")
           /\ history[i].solutions = <<XIs("john"), XIs("susan")>>

AnimalKB == BuildKB(AnimalFacts, AnimalRules)

\* C13: on the animal knowledge base, with the default depth limit,
\* solve(carnivore(X)) returns [{X = dog}, {X = cat}]: the order in which
\* eats(dog, meat) and eats(cat, meat) were listed.
C13_CarnivoreOrder ==
    \A i \in SolveCalls :
        (kb = AnimalKB /\ depth_arg = <<>> /\ history[i].goal = F1("carnivore", "?X"))
        => history[i].solutions = <<XIs("dog"), XIs("cat")>>

\* C14: on one prover with an unchanged knowledge base a top-level call does
\* not depend on the calls made before it: two calls of the same operation on
\* the same goal, the first of which may be the first call on a fresh prover,
\* return the same prove value and the same solutions in the same order.
C14_CallsIndependent ==
    \A i, j \in Calls :
        (history[i].api = history[j].api /\ history[i].goal = history[j].goal)
        => /\ history[i].proved = history[j].proved
           /\ history[i].solutions = history[j].solutions

\* The activations that are on the stack before and after a step.
Remaining == {k \in 1..Len(stack) : k <= Len(stack')}

\* C15: Fact.match never modifies the environment passed to it, whether it
\* returns an extended environment or None: an activation's environment is
\* the same after the loop over the facts and after a rule's conclusion was
\* tried, and each result of the loop over the facts is the extension of that
\* environment by one fact alone, whatever the facts tried before it bound.
C15_MatchLeavesBindings ==
    [][/\ \A k \in Remaining : stack'[k].bindings = stack[k].bindings
       /\ Running("backchain_to_goal", "facts")
          => \A n \in 1..Len(Top'.results) :
                 \E fact \in kb.facts :
                     <<Top'.results[n]>> = match(Top.hypothesis, fact, Top.bindings)]_vars

\* The loop over the facts has matched two facts with different bindings on
\* an environment that is not empty, and a rule's conclusion has been
\* matched since.
C15_Witness ==
    /\ Running("backchain_to_goal", "rules")
    /\ Top.i > 1
    /\ Len(Top.results) >= 2
    /\ Top.results[1] # Top.results[2]
    /\ Top.bindings # EmptyBindings
    /\ Top.bindings \notin SeqToSet(Top.results)

\* The calls of Fact.match followed on their own that have returned.
Matched == job.fn = "match" /\ job_result # <<>>

\* An environment as seen on a set of variables.
Restricted(bindings, variables) == [var \in variables |-> resolve_binding(var, bindings)]

\* C16: unification symmetry: for ground atoms a, b and an environment e,
\* a.match(b, e) succeeds if and only if b.match(a, e) succeeds, and then the
\* two returned environments agree on the variables of a and b.
C16_UnifySymmetry ==
    (Matched /\ IsGround(job.self) /\ IsGround(job.other)) =>
        LET forward == job_result[1].forward
            backward == job_result[1].backward
            variables == VarsOf(job.self) \cup VarsOf(job.other)
        IN  /\ forward # <<>> <=> backward # <<>>
            /\ forward # <<>>
               => Restricted(forward[1], variables) = Restricted(backward[1], variables)

\* Two equal ground atoms of arity 2 matched both ways on a chain environment.
C16_Witness ==
    /\ Matched
    /\ job.self = F2("p", "a", "b") /\ job.other = F2("p", "a", "b")
    /\ DOMAIN job.bindings = {T("?X"), T("?Y")}
    /\ job_result[1].forward = <<job.bindings>>
    /\ job_result[1].backward = <<job.bindings>>

\* A call on the first prover and a call on the prover constructed on the
\* renamed knowledge base, of the same operation on the same goal.
SameCallOnVariant(i, j, kind) ==
    /\ variant # <<>>
    /\ variant[1].kind = kind
    /\ history[i].prover = 1
    /\ history[j].prover = 2
    /\ history[i].api = history[j].api
    /\ history[i].goal = history[j].goal

SameSolutionSet(i, j) ==
    /\ history[i].proved = history[j].proved
    /\ SeqToSet(history[i].solutions) = SeqToSet(history[j].solutions)

\* C17: rename capture-freedom: renaming the variables of a rule of the
\* knowledge base consistently, to names the rule does not use, changes the
\* set of solutions of no top-level goal.
C17_RuleRenaming ==
    \A i, j \in Calls : SameCallOnVariant(i, j, "rule") => SameSolutionSet(i, j)

\* C18: variable identities are not shared across clauses: renaming the
\* variables of a stored fact consistently changes the solutions of no goal.
C18_FactRenaming ==
    \A i, j \in Calls : SameCallOnVariant(i, j, "fact") => SameSolutionSet(i, j)


\* The variable an argument of the surface syntax stands for when it is not
\* anonymous: an upper-case first character makes a variable.
Meant(arg) == IF arg[1] \in UpperCase THEN <<"?">> \o arg ELSE arg

MeantAtom(atom) == Fact(atom.predicate, [k \in 1..Len(atom.args) |-> Meant(atom.args[k])])

\* The positions of `_` in a surface atom.
Anonymous(atom) == {k \in 1..Len(atom.args) : atom.args[k] = <<"_">>}

GroundSurface(atom) ==
    \A k \in 1..Len(atom.args) : atom.args[k] # <<"_">> /\ atom.args[k][1] \notin UpperCase

\* C19: every occurrence of `_` in parsed clauses is a variable distinct from
\* every other occurrence, in the same clause and in another clause, so an
\* atom whose arguments are all `_` unifies with every ground atom of the
\* same predicate and arity: p(_, _) with p(a, b).
C19_AnonymousFresh ==
    job.fn = "parse_prolog_fact" /\ job_result # <<>> =>
        \A a, b \in SurfaceAtoms :
            WrittenAtom(a) = job.fact_str /\ WrittenAtom(b) = job.other_str =>
                LET fact == job_result[1].fact
                    other == job_result[1].other
                IN  /\ fact # <<>> /\ other # <<>>
                    /\ \A i \in Anonymous(a) :
                          /\ IsVar(fact[1].args[i])
                          /\ \A j \in Anonymous(a) \ {i} : fact[1].args[i] # fact[1].args[j]
                          /\ \A j \in Anonymous(b) : fact[1].args[i] # other[1].args[j]
                    /\ (/\ Anonymous(a) = 1..Len(a.args)
                        /\ GroundSurface(b)
                        /\ a.predicate = b.predicate
                        /\ Len(a.args) = Len(b.args)) => job_result[1].matched # <<>>

\* C19 for the occurrences of one atom with a single `_`: it is parsed as a
\* variable and the atom unifies with the ground atoms of its shape.
C19_SingleAnonymous ==
    job.fn = "parse_prolog_fact" /\ job_result # <<>> =>
        \A a, b \in SurfaceAtoms :
            /\ WrittenAtom(a) = job.fact_str /\ WrittenAtom(b) = job.other_str
            /\ Cardinality(Anonymous(a)) = 1 /\ Anonymous(a) = 1..Len(a.args)
            /\ GroundSurface(b) /\ a.predicate = b.predicate
            /\ Len(a.args) = Len(b.args)
            => job_result[1].matched # <<>>

\* C20: parse_prolog_rule returns a rule whose premises are the premises of
\* the body without a `\=`, each one kept, in the order of the text.
C20_DisequalitiesSkipped ==
    job.fn = "parse_prolog_rule" /\ job_result # <<>> =>
        \A body \in SurfaceBodies :
            WrittenRule(SurfaceHead, body) = job.rule_str =>
                LET kept == SelectSeq(body, LAMBDA premise : ~premise.diseq)
                    rule == job_result[1].rule
                IN  /\ rule # <<>>
                    /\ rule[1].conclusion = MeantAtom(SurfaceHead)
                    /\ rule[1].premises = [k \in 1..Len(kept) |-> MeantAtom(kept[k])]

\* C20 for the bodies whose atoms all have an argument list.
C20_ParenthesisedBodies ==
    job.fn = "parse_prolog_rule" /\ job_result # <<>> =>
        \A body \in SurfaceBodies :
            /\ WrittenRule(SurfaceHead, body) = job.rule_str
            /\ \A k \in 1..Len(body) : body[k].diseq \/ body[k].args # <<>>
            => LET kept == SelectSeq(body, LAMBDA premise : ~premise.diseq)
                   rule == job_result[1].rule
               IN  /\ rule # <<>>
                   /\ rule[1].conclusion = MeantAtom(SurfaceHead)
                   /\ rule[1].premises = [k \in 1..Len(kept) |-> MeantAtom(kept[k])]


\* The items of a written file that are clauses to be read: those of the
\* given kind that do not stand behind a comment on their line.
RECURSIVE ReadClauses(_, _, _, _, _)
ReadClauses(items, newline, k, in_comment, kind) ==
    IF k > Len(items) THEN <<>>
    ELSE LET behind == in_comment /\ k > 1 /\ ~newline[k - 1]
             rest == ReadClauses(items, newline, k + 1,
                                 behind \/ items[k].kind = "comment", kind)
         IN  IF ~behind /\ items[k].kind = kind THEN <<items[k]>> \o rest ELSE rest

MeantRule(clause) ==
    Rule(MeantAtom(clause.head), [k \in 1..Len(clause.body) |-> MeantAtom(clause.body[k])])

MeantFacts(file) ==
    LET read == ReadClauses(file.items, file.newline, 1, FALSE, "fact")
    IN  [k \in 1..Len(read) |-> MeantAtom(read[k].head)]

MeantRules(file) ==
    LET read == ReadClauses(file.items, file.newline, 1, FALSE, "rule")
    IN  [k \in 1..Len(read) |-> MeantRule(read[k])]

\* C21: parse_prolog_file returns every well-formed clause of the file once,
\* the facts and the rules in two lists in source order; a malformed clause is
\* skipped and no well-formed clause after it, on its line or a later one,
\* is lost or altered.
C21_FileClauses ==
    job.fn = "parse_prolog_file" /\ job_result # <<>> =>
        /\ job_result[1].facts = MeantFacts(job.written)
        /\ job_result[1].rules = MeantRules(job.written)

\* C21 for the files with one item on every line.
C21_OneClausePerLine ==
    /\ job.fn = "parse_prolog_file" /\ job_result # <<>>
    /\ \A k \in DOMAIN job.written.newline : job.written.newline[k]
    => /\ job_result[1].facts = MeantFacts(job.written)
       /\ job_result[1].rules = MeantRules(job.written)


\* The term n bindings after t in env, or the end of the chain when it is
\* shorter.
RECURSIVE Followed(_, _, _)
Followed(env, t, n) ==
    IF n = 0 \/ t \notin DOMAIN env THEN t ELSE Followed(env, env[t], n - 1)

\* No variable reaches itself by following one or more bindings, and every
\* chain ends outside the domain: in a constant or an unbound variable.
Acyclic(env) ==
    LET size == Cardinality(DOMAIN env) IN
    \A v \in DOMAIN env :
        /\ \A n \in 1..size : Followed(env, v, n) # v
        /\ Followed(env, v, size) \notin DOMAIN env

\* C22: every environment that successive match calls reach from the empty
\* environment is acyclic, and only variables are bound.
C22_EnvAcyclic ==
    job.fn = "successive_matches" =>
        /\ Acyclic(job_result[1])
        /\ \A v \in DOMAIN job_result[1] : IsVar(v)

\* An environment with a chain of three bindings has been returned.
C22_Witness ==
    /\ job.fn = "successive_matches"
    /\ \E v \in DOMAIN job_result[1] :
          /\ Followed(job_result[1], v, 2) \in DOMAIN job_result[1]
          /\ ~IsVar(Followed(job_result[1], v, 3))


IsWalk == job.fn \in {"substitute", "_resolve_binding", "extract_query_bindings"}

\* A term the walk has come to a second time is where the walk is: it is the
\* last of the trail, and the walk goes no further from it.
StopsAtRevisit(trail) ==
    \A i, j \in 1..Len(trail) : i < j /\ trail[i] = trail[j] => j = Len(trail)

\* C23: walking a binding chain terminates for every environment, cyclic ones
\* included, and the walks of Fact.substitute, Fact._resolve_binding and
\* extract_query_bindings each stop at the first variable they have already
\* visited.
C23_WalkStops ==
    /\ [](IsWalk => StopsAtRevisit(job_result[1].trail))
    /\ <>(IsWalk /\ job_result[1].done)

\* C23, termination alone: every walk comes to its end.
C23_WalksTerminate == <>(IsWalk /\ job_result[1].done)

\* C23 without Fact.substitute.
C23_OtherWalksStop ==
    [](IsWalk /\ job.fn # "substitute" => StopsAtRevisit(job_result[1].trail))

\* The step by step walks end with the values of the walks as operators.
WalkValues ==
    IsWalk /\ job_result[1].done =>
        job_result[1].value =
            IF job.fn = "substitute"
            THEN SubstituteWalk(job.arg, job.arg, {job.arg}, job.bindings)
            ELSE IF job.fn = "_resolve_binding" THEN resolve_binding(job.arg, job.bindings)
            ELSE ChainWalk(job.bindings[job.arg], {job.arg}, job.bindings)


\* C24: when a.match(b, env) succeeds on an acyclic env with the result env',
\* a.substitute(env') and b.substitute(env') are equal atoms, and env' has
\* every binding of env with its value.
C24_MatchUnifies ==
    job.fn = "successive_matches" /\ Len(job_result) = 2 =>
        LET call == job_result[2]
            after == job_result[1]
        IN  Acyclic(call.bindings) =>
                /\ substitute(call.self, after) = substitute(call.other, after)
                /\ \A v \in DOMAIN call.bindings :
                      v \in DOMAIN after /\ after[v] = call.bindings[v]

\* A match of two atoms of two arguments on an environment with a chain has
\* added a binding.
C24_Witness ==
    /\ job.fn = "successive_matches" /\ Len(job_result) = 2
    /\ Len(job_result[2].self.args) = 2
    /\ \E v \in DOMAIN job_result[2].bindings :
          job_result[2].bindings[v] \in DOMAIN job_result[2].bindings
    /\ DOMAIN job_result[1] # DOMAIN job_result[2].bindings


\* The variables of an environment.
EnvVars(env) == {t \in (DOMAIN env) \cup {env[v] : v \in DOMAIN env} : IsVar(t)}

\* The variables the proof holds: in the goals, premises and environments of
\* the open calls.
VarsInUse ==
    UNION {VarsOf(stack[k].hypothesis)
               \cup UNION {VarsOf(stack[k].premises[n]) : n \in 1..Len(stack[k].premises)}
               \cup EnvVars(stack[k].bindings) \cup EnvVars(stack[k].match_bindings)
           : k \in 1..Len(stack)}

\* A rule is about to be tried against the goal of the innermost call.
RuleTrial == Running("backchain_to_goal", "rules") /\ Top.i <= Len(kb.rules)

\* C25: within a top-level call the rule counter goes up by one with every
\* rule tried and never otherwise, and the variables of the renamed rule are
\* fresh: none is a variable of the top-level goal, none is held by the proof
\* from an earlier trial.
C25_FreshRenaming ==
    [][/\ rule_counter' # rule_counter => RuleTrial
       /\ RuleTrial =>
            /\ rule_counter' = rule_counter + 1
            /\ LET renamed == RuleVars(rename_rule_variables(kb.rules[Top.i], rule_counter'))
               IN  /\ renamed \cap VarsOf(goal) = {}
                   /\ renamed \cap VarsInUse = {}]_vars

\* C25 for the top-level goals whose variables carry no number.
C25_PlainGoals ==
    [][(\A v \in VarsOf(goal) : Len(v) = 1) =>
       /\ rule_counter' # rule_counter => RuleTrial
       /\ RuleTrial =>
            /\ rule_counter' = rule_counter + 1
            /\ LET renamed == RuleVars(rename_rule_variables(kb.rules[Top.i], rule_counter'))
               IN  /\ renamed \cap VarsOf(goal) = {}
                   /\ renamed \cap VarsInUse = {}]_vars


IsPrefix(s, t) == Len(s) <= Len(t) /\ SubSeq(t, 1, Len(s)) = s

\* backchain_to_goal is past its loops and about to return its results.
AtExit == Running("backchain_to_goal", "rules") /\ Top.i > Len(kb.rules)

\* C26: in the list backchain_to_goal returns for a goal the solutions from
\* the facts come first, then those through the rules in the order of
\* kb.rules: the fact solutions are the first entries placed, each later step
\* adds the solutions of one rule at the end, and the i-th rule tried is the
\* i-th rule of the list.
C26_FactsThenRules ==
    /\ [](AtExit => IsPrefix(FactResults(Top.hypothesis, Top.bindings, fact_order),
                             Top.results))
    /\ [][stack # <<>> /\ Top.fn = "backchain_to_goal" /\ Len(stack') >= Len(stack) =>
            LET after == stack'[Len(stack)] IN
            /\ IsPrefix(Top.results, after.results)
            /\ after.results # Top.results =>
                  \/ Top.pc = "facts" /\ Top.results = <<>>
                  \/ /\ Top.pc = "premises"
                     /\ after.results = Top.results \o ret
                     /\ after.i = Top.i + 1
            /\ Top.pc \in {"rules", "premises"} =>
                  after.pc \in {"rules", "premises"} /\ after.i >= Top.i
            /\ RuleTrial /\ Len(stack') > Len(stack) =>
                  stack'[Len(stack')].premises =
                      rename_rule_variables(kb.rules[Top.i], rule_counter').premises]_vars

\* backchain_to_goal returns a list with a solution from a fact followed by
\* solutions through rules.
C26_Witness ==
    /\ AtExit
    /\ FactResults(Top.hypothesis, Top.bindings, fact_order) # <<>>
    /\ Len(Top.results) > Len(FactResults(Top.hypothesis, Top.bindings, fact_order))

\* backchain_to_goal returns a list with solutions through two rules.
C26_TwoRules ==
    /\ AtExit
    /\ Len(kb.rules) >= 2
    /\ Len(Top.results) >= 2
    /\ FactResults(Top.hypothesis, Top.bindings, fact_order) = <<>>
    /\ Top.results[1] # Top.results[2]


\* The calls of backchain_to_goal that have pushed their goal, outermost first.
Expanded ==
    SelectSeq(stack, LAMBDA frame : frame.fn = "backchain_to_goal" /\ frame.pc # "enter")

\* C27: the goal stack is LIFO.  It holds the goals of the open expansions,
\* outermost first; it changes only by the push of an expansion and by the pop
\* at the end of one, which removes the goal that expansion pushed; the early
\* exits (depth limit, cycle, goal already proved) leave it and the trace
\* depth alone; between top-level calls it is empty and the trace depth is 0.
C27_GoalStackLifo ==
    /\ [](/\ current_goals =
                [k \in 1..Len(Expanded) |->
                    substitute(Expanded[k].hypothesis, Expanded[k].bindings)]
          /\ trace_depth = Len(Expanded)
          /\ stack = <<>> => current_goals = <<>> /\ trace_depth = 0
          /\ \A k \in 1..Len(history) :
                history[k].open_goals = <<>> /\ history[k].depth = 0)
    /\ [][/\ current_goals' # current_goals =>
                \/ /\ Running("backchain_to_goal", "enter")
                   /\ Len(stack') = Len(stack)
                   /\ current_goals' = Append(current_goals, BoundHypothesis)
                \/ /\ AtExit
                   /\ Len(stack') < Len(stack)
                   /\ current_goals = Append(current_goals', BoundHypothesis)
          /\ Running("backchain_to_goal", "enter") /\ Len(stack') < Len(stack) =>
                current_goals' = current_goals /\ trace_depth' = trace_depth
          /\ AtExit /\ stack' # stack =>
                current_goals = Append(current_goals', BoundHypothesis)]_vars

\* A second top-level call has returned after a goal was found already proved
\* in the course of several expansions.
C27_Witness ==
    /\ stack = <<>>
    /\ api = "none"
    /\ Len(history) >= 2
    /\ expansions >= 3
    /\ memo_hits >= 1


\* Constants that occur in no knowledge base and no goal, standing for any
\* individual.
AnyConstants == {T("any1"), T("any2")}

\* The goal with a solution's bindings applied.
Applied(hypothesis, solution) ==
    Fact(hypothesis.predicate,
         [i \in 1..Len(hypothesis.args) |->
             IF hypothesis.args[i] \in DOMAIN solution THEN solution[hypothesis.args[i]]
             ELSE hypothesis.args[i]])

\* The least fixpoint of forward chaining over the facts and rules of kb.
LeastFixpoint(U) == DerivableWithin(Cardinality(UNION {Instances(a, U) : a \in KBAtoms}) + 1, U)

\* The atom is a consequence of kb: it is in the least fixpoint when ground,
\* and every instance of it is, arbitrary individuals included, when not.
Consequence(atom, hypothesis) ==
    LET U == Universe(hypothesis) \cup (IF IsGround(atom) THEN {} ELSE AnyConstants)
    IN  Instances(atom, U) \subseteq LeastFixpoint(U)

\* C28: soundness.  Every solution returned for a goal is correct: the goal
\* with the bindings of the solution applied is a consequence of the knowledge
\* base, for the environments backchain_to_goal returns and for the solutions
\* surfaced from them; and a ground goal that prove reports true is derivable.
C28_Sound ==
    \A i \in Calls :
        LET g == history[i].goal IN
        /\ \A k \in 1..Len(history[i].results) :
              Consequence(substitute(g, history[i].results[k]), g)
        /\ history[i].api = "solve" =>
              \A k \in 1..Len(history[i].solutions) :
                  Consequence(Applied(g, history[i].solutions[k]), g)
        /\ history[i].api = "prove" /\ IsGround(g) /\ history[i].proved =>
              Consequence(g, g)

\* C28 without the surfaced solutions that leave a variable of the goal open.
C28_SoundEnvironments ==
    \A i \in Calls :
        LET g == history[i].goal IN
        /\ \A k \in 1..Len(history[i].results) :
              Consequence(substitute(g, history[i].results[k]), g)
        /\ history[i].api = "solve" =>
              \A k \in 1..Len(history[i].solutions) :
                  IsGround(Applied(g, history[i].solutions[k])) =>
                      Consequence(Applied(g, history[i].solutions[k]), g)
        /\ history[i].api = "prove" /\ IsGround(g) /\ history[i].proved =>
              Consequence(g, g)


\* s is t with some entries left out.
RECURSIVE IsSubsequence(_, _)
IsSubsequence(s, t) ==
    IF s = <<>> THEN TRUE
    ELSE IF t = <<>> THEN FALSE
    ELSE IF Head(s) = Head(t) THEN IsSubsequence(Tail(s), Tail(t))
    ELSE IsSubsequence(s, Tail(t))

\* The second knowledge base has every fact of the first, and its rules in
\* their order.
ContainsKB(larger, smaller) ==
    /\ SeqToSet(smaller.fact_listing) \subseteq SeqToSet(larger.fact_listing)
    /\ IsSubsequence(smaller.rule_listing, larger.rule_listing)

\* C29: monotonicity in the knowledge base: a goal that prove reports true
\* against K, under a max_depth, is reported true against every knowledge
\* base with the facts of K, the rules of K in their order, and more clauses.
C29_Monotone ==
    \A i, j \in Calls :
        (/\ SameCallOnVariant(i, j, "superset")
         /\ ContainsKB(variant[1].scenario, variant[1].original)
         /\ history[i].api = "prove"
         /\ history[i].proved)
        => history[j].proved

\* C29 for the goals whose variables carry no number.
C29_PlainGoals ==
    \A i, j \in Calls :
        (/\ SameCallOnVariant(i, j, "superset")
         /\ ContainsKB(variant[1].scenario, variant[1].original)
         /\ \A v \in VarsOf(history[i].goal) : Len(v) = 1
         /\ history[i].api = "prove"
         /\ history[i].proved)
        => history[j].proved


\* How many times refine ran in the run.
RefineRuns(state) == Cardinality({k \in 1..Len(state.ran) : state.ran[k] = "refine"})

\* The run is at END and the last four nodes it ran are parse, build_kb,
\* infer and format.
AtEnd(state) ==
    /\ state.node = "END"
    /\ Len(state.ran) >= 4
    /\ SubSeq(state.ran, Len(state.ran) - 3, Len(state.ran))
          = <<"parse", "build_kb", "infer", "format">>

\* C30: in one run of the graph refine runs at most max_iterations times:
\* judge_relevancy goes on to refine only when needs_refinement holds and
\* iteration < max_iterations, each refine adds one to iteration, and every
\* run passes parse, build_kb, infer and format in this order and reaches END.
C30_RefineBounded ==
    /\ [](job.fn = "reason" =>
             /\ RefineRuns(job_result[1]) <= job.max_iterations
             /\ RefineRuns(job_result[1]) = job_result[1].iteration
             /\ job_result[1].max_iterations = job.max_iterations)
    /\ [][job.fn = "reason" =>
             /\ (job_result[1].node = "judge_relevancy" /\ job_result'[1].node = "refine"
                    => /\ job_result'[1].needs_refinement
                       /\ job_result'[1].iteration < job_result'[1].max_iterations)
             /\ (job_result[1].node = "judge_relevancy"
                    => job_result'[1].node \in {"refine", "parse"})
             /\ (job_result'[1].node = "refine" => job_result[1].node = "judge_relevancy")
             /\ (job_result[1].node = "refine"
                    => job_result'[1].iteration = job_result[1].iteration + 1)
             /\ (job_result[1].node # "refine"
                    => job_result'[1].iteration = job_result[1].iteration)]_vars
    /\ <>(job.fn = "reason" /\ AtEnd(job_result[1]))

\* A run that refined max_iterations times, more than once, and ended.
C30_Witness ==
    /\ job.fn = "reason"
    /\ AtEnd(job_result[1])
    /\ job.max_iterations >= 2
    /\ RefineRuns(job_result[1]) = job.max_iterations
    /\ job_result[1].needs_refinement

\* A run that never refined though refinement was asked for: the limit is 0.
C30_NoRefinement ==
    /\ job.fn = "reason"
    /\ AtEnd(job_result[1])
    /\ job.max_iterations = 0
    /\ job_result[1].needs_refinement
====
